---- MODULE Spec2Model ----
(***************************************************************************)
(* Model of the effect execution engine of the Orbital Python shell:       *)
(* core/bindings.py (binding resolver), core/repository.py (in-memory      *)
(* storage provider), core/effect_executor.py (effect dispatcher) and      *)
(* core/event_bus.py (event bus), core/websocket.py (connection manager)   *)
(* and the realtime endpoints of main.py.  The specifications share the    *)
(* variables: Spec drives one dispatcher, RepoSpec calls the repository    *)
(* directly, BusSpec drives the event bus, TokenSpec adds the unsubscribe  *)
(* tokens and clear, ResolveSpec calls the binding resolver, ManagerSpec   *)
(* runs concurrent calls on the connection manager, ManagerLiveSpec does   *)
(* so under the scheduling of the event loop with sends that may never     *)
(* return, ChannelSpec runs the realtime endpoints, OverlapSpec lets       *)
(* several clients emit while another emit is suspended and ReentrantSpec  *)
(* subscribes handlers that call the bus while an emit invokes them.       *)
(*                                                                         *)
(* Python values.  Every value is a record [k, s, a]:                      *)
(*   k = "null"  None                                                      *)
(*   k = "str"   a string, s its text                                      *)
(*   k = "bool"  True (a = 1) or False (a = 0)                             *)
(*   k = "ref"   a reference to the heap object at address a (a dict, a    *)
(*               list or a plain object with attributes)                   *)
(*   k = "opq"   an opaque result of the compute service (a tensor)        *)
(*   k = "tmp"   a fresh empty dict that no other object refers to         *)
(* Mutable objects live in the heap, so that two references to one dict    *)
(* see each other's writes, as in Python.                                  *)
(*                                                                         *)
(* Strings.  A string is the sequence of its lexemes: the characters "@",  *)
(* "." and "/" are always lexemes of their own, every other lexeme is a    *)
(* maximal non-empty run of other characters.  "@entity.status" is         *)
(* <<"@", "entity", ".", "status">>.  startswith, split(".") and replace   *)
(* are computed on that sequence.                                          *)
(***************************************************************************)
EXTENDS Integers, Sequences, FiniteSets, TLC

VARIABLES
    heap,           \* the Python heap: sequence of objects, address = index
    context,        \* the request context: root name -> value
    store,          \* InMemoryRepository._store: type -> ordered id/entity list
    uuids,          \* number of ids generated by uuid.uuid4() so far
    data,           \* EffectExecutor.data: entity type -> last fetched value
    clientEffects,  \* EffectExecutor.client_effects
    effectResults,  \* EffectExecutor.effect_results
    executed,       \* history: the effects passed to execute, in call order
    ret,            \* value returned by the last call (None if it raised)
    exc,            \* exception raised by the last call, "" if it returned
    repoLog,        \* history: the direct calls of the repository's methods
    subscriptions,  \* EventBus._subscriptions: event -> address of its list
    busLists,       \* the list objects _subscriptions refers to, by address
    subscribed,     \* history: the subscribe calls, in call order
    emits,          \* the emit calls in start order, each with its position
    invocations,    \* history: the handler calls, returns and raises
    resolveLog,     \* history: the direct calls of resolve_binding
    busLog,         \* history: the unsubscribe and clear calls on the event bus
    active_connections, \* ConnectionManager.active_connections: type -> id -> list
    global_connections, \* ConnectionManager.global_connections
    lock,           \* ConnectionManager._lock: the task holding it, 0 if free
    wsState,        \* application_state of each WebSocket object
    tasks,          \* the calls on the connection manager, in start order
    wire            \* history: per connection, the texts received and sent

busVars == <<subscriptions, busLists, subscribed, emits, invocations>>

\* the variables of the components a dispatcher does not touch
registryVars == <<active_connections, global_connections, lock, wsState, tasks, wire>>

extVars == <<resolveLog, busLog, registryVars>>

\* the variables the connection manager does not touch
hostVars == <<heap, context, store, uuids, data, clientEffects, effectResults,
              executed, ret, exc, repoLog, busVars, resolveLog, busLog>>

coreVars == <<heap, context, store, uuids, data, clientEffects,
              effectResults, executed, ret, exc, repoLog, extVars>>

vars == <<heap, context, store, uuids, data, clientEffects,
          effectResults, executed, ret, exc, repoLog,
          subscriptions, busLists, subscribed, emits, invocations,
          resolveLog, busLog,
          active_connections, global_connections, lock, wsState, tasks, wire>>

---------------------------------------------------------------------------
(* Bounds *)

\* number of execute calls made on the dispatcher
MaxSteps == 2

\* number of calls a client makes on the repository
MaxCalls == 2

\* number of subscribe calls and of emit calls made on the event bus
MaxSubs == 2

MaxEmits == 2

\* number of unsubscribe and clear calls made on the event bus
MaxBusCalls == 2

\* number of direct calls of resolve_binding
MaxResolves == 2

\* number of calls made on the connection manager
MaxTasks == 2

\* number of texts a client sends on one connection
MaxTexts == 1

---------------------------------------------------------------------------
(* Values *)

None == [k |-> "null", s |-> <<>>, a |-> 0]

Str(s) == [k |-> "str", s |-> s, a |-> 0]

W(w) == Str(<<w>>)

Bool(b) == [k |-> "bool", s |-> <<>>, a |-> IF b THEN 1 ELSE 0]

Ref(a) == [k |-> "ref", s |-> <<>>, a |-> a]

Opaque == [k |-> "opq", s |-> <<>>, a |-> 0]

IsStr(v) == v.k = "str"

IsRef(v) == v.k = "ref"

EmptyMap == [x \in {} |-> None]

DictObj(d) == [t |-> "dict", d |-> d, l |-> <<>>]

ListObj(l) == [t |-> "list", d |-> EmptyMap, l |-> l]

PlainObj(d) == [t |-> "obj", d |-> d, l |-> <<>>]

\* isinstance(v, dict)
IsDict(v, h) == IsRef(v) /\ h[v.a].t = "dict"

\* isinstance(v, list)
IsList(v, h) == IsRef(v) /\ h[v.a].t = "list"

IsObj(v, h) == IsRef(v) /\ h[v.a].t = "obj"

\* bool(v): None, False, "", {} and [] are falsy
Truthy(v, h) ==
    CASE v.k = "null" -> FALSE
      [] v.k = "str"  -> v.s # <<>>
      [] v.k = "bool" -> v.a = 1
      [] v.k = "opq"  -> TRUE
      [] v.k = "ref"  -> CASE h[v.a].t = "dict" -> DOMAIN h[v.a].d # {}
                           [] h[v.a].t = "list" -> h[v.a].l # <<>>
                           [] OTHER -> TRUE

\* hash(v) succeeds: dicts and lists are unhashable
Hashable(v, h) == ~IsDict(v, h) /\ ~IsList(v, h)

\* d.get(key, default) on a dict's field map
DictGet(d, key, default) == IF key \in DOMAIN d THEN d[key] ELSE default

\* getattr(v, name, default): only plain objects carry the attributes this
\* model names; the builtin types have none of them
GetAttr(v, name, default, h) ==
    IF IsObj(v, h) THEN DictGet(h[v.a].d, name, default) ELSE default

\* a == b for the values compared in this model (a filter's expected value
\* against an entity field): scalars by value, objects by identity
PyEq(a, b) == a = b

---------------------------------------------------------------------------
(* String operations *)

\* s.startswith(p)
StartsWith(s, p) == Len(s) >= Len(p) /\ SubSeq(s, 1, Len(p)) = p

\* s.split("."): the runs between "." lexemes, possibly empty
RECURSIVE Split(_)
Split(s) ==
    IF s = <<>> THEN << <<>> >>
    ELSE LET r == Split(Tail(s)) IN
         IF Head(s) = "." THEN << <<>> >> \o r
         ELSE << <<Head(s)>> \o r[1] >> \o Tail(r)

\* s.replace(p, ""), p non-empty
RECURSIVE Replace(_, _)
Replace(s, p) ==
    IF s = <<>> THEN <<>>
    ELSE IF StartsWith(s, p) THEN Replace(SubSeq(s, Len(p) + 1, Len(s)), p)
    ELSE <<Head(s)>> \o Replace(Tail(s), p)

---------------------------------------------------------------------------
(* core/bindings.py *)

\* mutant: the walk stops at the root and gives None for any longer path
C29_MutResolveWalk(result, parts, h) == IF parts = <<>> THEN result ELSE None

RECURSIVE ResolveWalk(_, _, _)
ResolveWalk(result, parts, h) ==
    IF parts = <<>> THEN result
    ELSE IF result = None THEN None
    ELSE IF IsDict(result, h)
         THEN ResolveWalk(DictGet(h[result.a].d, Head(parts), None), Tail(parts), h)
         ELSE ResolveWalk(GetAttr(result, Head(parts), None, h), Tail(parts), h)

\* mutant: a binding string is passed on as it is
C40_MutResolveBinding(value, ctx, h) == value

resolve_binding(value, ctx, h) ==
    IF ~IsStr(value) THEN value
    ELSE IF ~StartsWith(value.s, <<"@">>) THEN value
    ELSE LET parts == Split(Tail(value.s))
             root  == parts[1]
         IN  IF root \notin DOMAIN ctx THEN None
             ELSE ResolveWalk(ctx[root], Tail(parts), h)

---------------------------------------------------------------------------
(* core/repository.py: InMemoryRepository *)

ID == <<"id">>

\* mutant: the generated id is one that is already stored
C14_MutUuid(n) == W("t1")

\* str(uuid.uuid4()): the n-th generated id; generated ids differ from each
\* other and from every id a caller writes
Uuid(n) == Str(<<"uuid4", ToString(n)>>)

\* outcome of a storage call: the heap, store and id counter it leaves, the
\* value it returns and the exception it raises ("" if none)
Res(h, st, n, v, e) == [heap |-> h, store |-> st, uuids |-> n, val |-> v, exc |-> e]

\* position of key id in an insertion-ordered dict, 0 if absent
IndexOf(ents, id) ==
    IF \E i \in 1..Len(ents) : ents[i].id = id
    THEN CHOOSE i \in 1..Len(ents) : ents[i].id = id
    ELSE 0

\* mutant: the entity is not put into the type's dict
C11_MutPutEntry(ents, id, a) == ents

\* d[id] = a on an insertion-ordered dict: an existing key keeps its place
PutEntry(ents, id, a) ==
    IF IndexOf(ents, id) # 0
    THEN [ents EXCEPT ![IndexOf(ents, id)] = [id |-> id, a |-> a]]
    ELSE Append(ents, [id |-> id, a |-> a])

\* mutant: the entry is left in place
C7_MutDelEntry(ents, id) == ents

\* mutant: the entry stays in the type's dict
C13_MutDelEntry(ents, id) == SubSeq(ents, 1, Len(ents))

\* del d[id]
DelEntry(ents, id) ==
    SubSeq(ents, 1, IndexOf(ents, id) - 1) \o SubSeq(ents, IndexOf(ents, id) + 1, Len(ents))

\* self._store.get(entity_type, {})
TypeEntries(st, type) == IF type \in DOMAIN st THEN st[type] ELSE <<>>

\* if entity_type not in self._store: self._store[entity_type] = {}
EnsureType(st, type) == IF type \in DOMAIN st THEN st ELSE (type :> <<>>) @@ st

\* the value get returns for a hashable type and id
Lookup(st, type, id) ==
    LET ents == TypeEntries(st, type) IN
    IF IndexOf(ents, id) = 0 THEN None ELSE Ref(ents[IndexOf(ents, id)].a)

repo_get(h, st, n, type, id) ==
    IF ~Hashable(type, h) \/ ~Hashable(id, h) THEN Res(h, st, n, None, "TypeError")
    ELSE Res(h, st, n, Lookup(st, type, id), "")

\* mutant: the comprehension keeps every entity
C15_MutFilterEq(entities, field, expected, h) == entities

\* mutant: the comprehension drops the first entity that matches
C17_MutFilterEq(entities, field, expected, h) ==
    LET Test(e) == PyEq(DictGet(h[e.a].d, field, None), expected)
        m == SelectSeq(entities, Test)
    IN  IF m = <<>> THEN m ELSE Tail(m)

\* [e for e in entities if e.get(field_name) == expected_value]
RECURSIVE FilterEq(_, _, _, _)
FilterEq(entities, field, expected, h) ==
    IF entities = <<>> THEN <<>>
    ELSE LET rest == FilterEq(Tail(entities), field, expected, h) IN
         IF PyEq(DictGet(h[Head(entities).a].d, field, None), expected)
         THEN <<Head(entities)>> \o rest
         ELSE rest

EntityPrefix == <<"@", "entity", ".">>

\* _apply_filter: [ents |-> the items of the returned list, exc |-> exception
\* or "", new |-> the returned list is a new list, not the argument itself]
apply_filter(entities, f, h) ==
    IF ~Truthy(f, h) \/ ~IsList(f, h) THEN [ents |-> entities, exc |-> "", new |-> FALSE]
    ELSE LET fl == h[f.a].l IN
         IF fl[1] # W("=") THEN [ents |-> entities, exc |-> "", new |-> FALSE]
         ELSE IF Len(fl) < 3 THEN [ents |-> <<>>, exc |-> "IndexError", new |-> FALSE]
         ELSE IF IsStr(fl[2]) /\ StartsWith(fl[2].s, EntityPrefix)
              THEN [ents |-> FilterEq(entities, Replace(fl[2].s, EntityPrefix), fl[3], h),
                    exc  |-> "", new |-> TRUE]
              ELSE [ents |-> entities, exc |-> "", new |-> FALSE]

\* list(self._store.get(entity_type, {}).values())
RefsOf(ents) == [i \in 1..Len(ents) |-> Ref(ents[i].a)]

repo_list(h, st, n, type, f, ctx) ==
    IF ~Hashable(type, h) THEN Res(h, st, n, None, "TypeError")
    ELSE LET entities == RefsOf(TypeEntries(st, type))
             fr == IF Truthy(f, h) /\ DOMAIN ctx # {}
                   THEN apply_filter(entities, f, h)
                   ELSE [ents |-> entities, exc |-> "", new |-> FALSE]
         IN  IF fr.exc # "" THEN Res(h, st, n, None, fr.exc)
             ELSE Res(Append(h, ListObj(fr.ents)), st, n, Ref(Len(h) + 1), "")

\* mutant: the id is not written into the stored entity
C5_MutWithId(d, id) == d

\* {**data, "id": entity_id}
WithId(d, id) == (ID :> id) @@ d

repo_create(h, st, n, type, dat) ==
    IF ~IsDict(dat, h) THEN Res(h, st, n, None, "AttributeError")
    ELSE LET given == DictGet(h[dat.a].d, ID, None)
             fresh == ~Truthy(given, h)
             n1    == IF fresh THEN n + 1 ELSE n
             id    == IF fresh THEN Uuid(n1) ELSE given
             h1    == Append(h, DictObj(WithId(h[dat.a].d, id)))
         IN  IF ~Hashable(type, h) THEN Res(h1, st, n1, None, "TypeError")
             ELSE IF ~Hashable(id, h) THEN Res(h1, EnsureType(st, type), n1, None, "TypeError")
             ELSE Res(h1,
                      [EnsureType(st, type) EXCEPT ![type] = PutEntry(@, id, Len(h) + 1)],
                      n1, Ref(Len(h) + 1), "")

\* the exception dict.update(data) or {**data} raises for a non-dict data,
\* "" when the call goes through (dict, or an empty string or list for update)
MergeExc(dat, h, spread) ==
    IF IsDict(dat, h) THEN ""
    ELSE IF spread THEN "TypeError"
    ELSE IF IsStr(dat) \/ IsList(dat, h)
         THEN (IF Truthy(dat, h) THEN "ValueError" ELSE "")
         ELSE "TypeError"

\* mutant: the fields of data are not written into the stored entity
C12_MutMerged(old, dat, h) == old

\* target.update(data) on field maps
Merged(old, dat, h) == IF IsDict(dat, h) THEN h[dat.a].d @@ old ELSE old

repo_update(h, st, n, type, id, dat) ==
    IF ~Hashable(type, h) THEN Res(h, st, n, None, "TypeError")
    ELSE LET st1  == EnsureType(st, type)
             idx  == IndexOf(st1[type], id)
         IN  IF ~Hashable(id, h) THEN Res(h, st1, n, None, "TypeError")
             ELSE IF idx # 0
             THEN LET a == st1[type][idx].a IN
                  IF MergeExc(dat, h, FALSE) # ""
                  THEN Res(h, st1, n, None, MergeExc(dat, h, FALSE))
                  ELSE Res([h EXCEPT ![a].d = Merged(@, dat, h)], st1, n, Ref(a), "")
             ELSE IF MergeExc(dat, h, TRUE) # ""
                  THEN Res(h, st1, n, None, MergeExc(dat, h, TRUE))
                  ELSE Res(Append(h, DictObj(WithId(h[dat.a].d, id))),
                           [st1 EXCEPT ![type] = Append(@, [id |-> id, a |-> Len(h) + 1])],
                           n, Ref(Len(h) + 1), "")

repo_delete(h, st, n, type, id) ==
    IF ~Hashable(type, h) THEN Res(h, st, n, None, "TypeError")
    ELSE IF type \notin DOMAIN st THEN Res(h, st, n, Bool(FALSE), "")
    ELSE IF ~Hashable(id, h) THEN Res(h, st, n, None, "TypeError")
    ELSE IF IndexOf(st[type], id) # 0
         THEN Res(h, [st EXCEPT ![type] = DelEntry(@, id)], n, Bool(TRUE), "")
         ELSE Res(h, st, n, Bool(FALSE), "")

---------------------------------------------------------------------------
(* core/effect_executor.py: EffectExecutor *)

\* the dispatcher and its collaborators as one record S: heap, store, uuids,
\* data, clientEffects, effectResults, ret, exc
Return(S, v) == [S EXCEPT !.ret = v, !.exc = ""]

Raise(S, e) == [S EXCEPT !.ret = None, !.exc = e]

\* S after a storage call with outcome r
WithRepo(S, r) == [S EXCEPT !.heap = r.heap, !.store = r.store, !.uuids = r.uuids]

\* d[key] = v on a dict's field map
SetKey(d, key, v) == (key :> v) @@ d

\* the `{}` the handlers default a missing argument to; they only read it,
\* so one shared empty dict stands for every such fresh dict
DefaultDict == Ref(1)

\* a fresh `{}` that nothing else references (the default of the set walk)
Fresh == [k |-> "tmp", s |-> <<>>, a |-> 0]

ClientTags == {W("render_ui"), W("render-ui"), W("navigate"), W("notify"), W("emit")}

\* mutant: the emit branch of the dispatch is lost
C1_MutIsClientTag(t) == t \in ClientTags \ {W("emit")}

\* mutant: the client tags are matched without regard to case
C9_MutIsClientTag(t) == t \in ClientTags \cup {W("EMIT")}

\* mutant: an unknown tag is taken for a client tag
C32_MutIsClientTag(t) == t \in ClientTags \cup {W("unknown_effect")}

IsClientTag(t) == t \in ClientTags

\* exception of `"id" in options` / options.get for a non-dict options
OptionsExc(options, h) ==
    IF IsStr(options) \/ IsList(options, h) THEN "AttributeError" ELSE "TypeError"

execute_fetch(e, ctx, S) ==
    IF Len(e) < 2 THEN Raise(S, "IndexError")
    ELSE
    LET entity_type == e[2]
        options     == IF Len(e) > 2 THEN e[3] ELSE DefaultDict
        h           == S.heap
    IN  IF ~IsDict(options, h) THEN Raise(S, OptionsExc(options, h))
        ELSE
        LET od == h[options.a].d
            r  == IF ID \in DOMAIN od
                  THEN repo_get(h, S.store, S.uuids, entity_type,
                                resolve_binding(od[ID], ctx, h))
                  ELSE repo_list(h, S.store, S.uuids, entity_type,
                                 DictGet(od, <<"filter">>, None), ctx)
        IN  IF r.exc # "" THEN Raise(WithRepo(S, r), r.exc)
            ELSE LET S1 == [WithRepo(S, r) EXCEPT !.data = SetKey(@, entity_type, r.val)]
                 IN  Return(S1, DictGet(S1.data, entity_type, None))

\* mutant: data.id is preferred to context.entityId
C6_MutUpdateId(ctx, dat, h) ==
    IF IsDict(dat, h) /\ Truthy(DictGet(h[dat.a].d, ID, None), h)
    THEN DictGet(h[dat.a].d, ID, None)
    ELSE DictGet(ctx, <<"entityId">>, None)

\* context.get("entityId") or (data.get("id") if isinstance(data, dict) else None)
UpdateId(ctx, dat, h) ==
    LET fromCtx == DictGet(ctx, <<"entityId">>, None) IN
    IF Truthy(fromCtx, h) THEN fromCtx
    ELSE IF IsDict(dat, h) THEN DictGet(h[dat.a].d, ID, None)
    ELSE None

\* context.get("entityId")
DeleteId(ctx) == DictGet(ctx, <<"entityId">>, None)

\* mutant: the result reports that nothing was deleted
C39_MutDeletedDict(id) == DictObj((<<"deleted">> :> Bool(FALSE)) @@ (ID :> id))

\* {"deleted": True, "id": entity_id}
DeletedDict(id) == DictObj((<<"deleted">> :> Bool(TRUE)) @@ (ID :> id))

\* "success": result is not None
PersistSuccess(result) == result # None

PersistRecord(action, entity_type, result) ==
    [effect |-> W("persist"), action |-> action, entityType |-> entity_type,
     data |-> result, success |-> Bool(PersistSuccess(result))]

\* the storage part of a persist: the outcome of the branch taken
persist_branch(action, entity_type, dat, ctx, S) ==
    LET h    == S.heap
        noop == Res(h, S.store, S.uuids, None, "")
    IN  CASE action = W("create") ->
                repo_create(h, S.store, S.uuids, entity_type, dat)
          [] action = W("update") ->
                IF Truthy(UpdateId(ctx, dat, h), h)
                THEN repo_update(h, S.store, S.uuids, entity_type, UpdateId(ctx, dat, h), dat)
                ELSE noop
          [] action = W("delete") ->
                IF Truthy(DeleteId(ctx), h)
                THEN LET r == repo_delete(h, S.store, S.uuids, entity_type, DeleteId(ctx))
                     IN  IF r.exc # "" THEN r
                         ELSE Res(Append(r.heap, DeletedDict(DeleteId(ctx))), r.store,
                                  r.uuids, Ref(Len(r.heap) + 1), "")
                ELSE noop
          [] OTHER -> noop

execute_persist(e, ctx, S) ==
    IF Len(e) < 3 THEN Raise(S, "IndexError")
    ELSE
    LET action      == e[2]
        entity_type == e[3]
        dat         == IF Len(e) > 3 THEN resolve_binding(e[4], ctx, S.heap) ELSE DefaultDict
        r           == persist_branch(action, entity_type, dat, ctx, S)
    IN  IF r.exc # "" THEN Raise(WithRepo(S, r), r.exc)
        ELSE Return([WithRepo(S, r) EXCEPT
                        !.effectResults = Append(@, PersistRecord(action, entity_type, r.val))],
                    r.val)

\* {"service": service, "method": method, "status": "not_implemented"}
ServiceDict(service, method) ==
    DictObj((<<"service">> :> service) @@ (<<"method">> :> method)
            @@ (<<"status">> :> W("not_implemented")))

\* mutant: the placeholder is recorded as a success
C8_MutServiceRecord(service, method, result) ==
    [effect |-> W("call_service"), service |-> service, method |-> method,
     data |-> result, success |-> Bool(TRUE)]

ServiceRecord(service, method, result) ==
    [effect |-> W("call_service"), service |-> service, method |-> method,
     data |-> result, success |-> Bool(FALSE)]

execute_call_service(e, ctx, S) ==
    IF Len(e) < 3 THEN Raise(S, "IndexError")
    ELSE
    LET service == e[2]
        method  == e[3]
        result  == Ref(Len(S.heap) + 1)
    IN  Return([S EXCEPT !.heap = Append(@, ServiceDict(service, method)),
                         !.effectResults = Append(@, ServiceRecord(service, method, result))],
               result)

\* the loop over parts[1:-1]: obj.get(part, {}) on a dict, getattr(obj, part, {})
\* on anything else
RECURSIVE SetWalk(_, _, _)
SetWalk(obj, parts, h) ==
    IF parts = <<>> THEN obj
    ELSE IF obj = Fresh THEN SetWalk(Fresh, Tail(parts), h)
    ELSE IF IsDict(obj, h)
         THEN SetWalk(DictGet(h[obj.a].d, Head(parts), Fresh), Tail(parts), h)
         ELSE SetWalk(GetAttr(obj, Head(parts), Fresh, h), Tail(parts), h)

\* obj[final_field] = value / setattr(obj, final_field, value):
\* [heap |-> the heap afterwards, exc |-> exception or ""]
SetFinal(obj, final_field, value, h) ==
    IF obj = Fresh THEN [heap |-> h, exc |-> ""]
    ELSE IF IsDict(obj, h) \/ IsObj(obj, h)
         THEN [heap |-> [h EXCEPT ![obj.a].d = SetKey(@, final_field, value)], exc |-> ""]
         ELSE [heap |-> h, exc |-> "AttributeError"]

\* if root in context and len(parts) > 1
SetApplies(parts, ctx) == parts[1] \in DOMAIN ctx /\ Len(parts) > 1

SetRecord(target, value) ==
    [effect |-> W("set"), target |-> target, value |-> value, success |-> Bool(TRUE)]

execute_set(e, ctx, S) ==
    IF Len(e) < 2 THEN Raise(S, "IndexError")
    ELSE
    LET target == e[2]
        value  == IF Len(e) > 2 THEN resolve_binding(e[3], ctx, S.heap) ELSE None
        parts  == Split(Tail(target.s))
        w      == IF IsStr(target) /\ StartsWith(target.s, <<"@">>) /\ SetApplies(parts, ctx)
                  THEN SetFinal(SetWalk(ctx[parts[1]], SubSeq(parts, 2, Len(parts) - 1), S.heap),
                                parts[Len(parts)], value, S.heap)
                  ELSE [heap |-> S.heap, exc |-> ""]
    IN  IF w.exc # "" THEN Raise(S, w.exc)
        ELSE Return([S EXCEPT !.heap = w.heap,
                              !.effectResults = Append(@, SetRecord(target, value))],
                    value)

\* outcomes of a call into the numerical framework
ComputeOutcomes == {"import_error", "ok", "fail"}

\* nn_forward(module, input): module.eval() needs an object
nn_forward(module, input, S, nd) ==
    IF ~IsObj(module, S.heap) THEN Raise(S, "AttributeError")
    ELSE IF nd = "ok" THEN Return(S, Opaque) ELSE Raise(S, "RuntimeError")

\* train_loop(module, data, config): config.get needs a dict,
\* module.parameters() an object
train_loop(module, dat, config, S, nd) ==
    IF ~IsDict(config, S.heap) \/ ~IsObj(module, S.heap) THEN Raise(S, "AttributeError")
    ELSE IF nd = "ok" THEN Return(S, Opaque) ELSE Raise(S, "RuntimeError")

execute_pytorch(e, ctx, S, nd) ==
    IF nd = "import_error" THEN Return(S, None)
    ELSE IF e[1] = Str(<<"nn", "/", "forward">>)
    THEN IF Len(e) < 3 THEN Raise(S, "IndexError")
         ELSE nn_forward(resolve_binding(e[2], ctx, S.heap),
                         resolve_binding(e[3], ctx, S.heap), S, nd)
    ELSE IF e[1] = Str(<<"train", "/", "loop">>)
    THEN IF Len(e) < 4 THEN Raise(S, "IndexError")
         ELSE train_loop(resolve_binding(e[2], ctx, S.heap),
                         resolve_binding(e[3], ctx, S.heap),
                         resolve_binding(e[4], ctx, S.heap), S, nd)
    ELSE Return(S, None)

execute_tensor(e, ctx, S) == Return(S, None)

IsPytorchTag(t) ==
    IsStr(t) /\ (StartsWith(t.s, <<"nn", "/">>) \/ StartsWith(t.s, <<"train", "/">>))

IsTensorTag(t) == IsStr(t) /\ StartsWith(t.s, <<"tensor", "/">>)

execute(e, ctx, S, nd) ==
    IF e = <<>> THEN Return(S, None)
    ELSE LET effect_type == e[1] IN
         IF effect_type = W("fetch") THEN execute_fetch(e, ctx, S)
         ELSE IF effect_type = W("persist") THEN execute_persist(e, ctx, S)
         ELSE IF effect_type = W("call_service") THEN execute_call_service(e, ctx, S)
         ELSE IF effect_type = W("set") THEN execute_set(e, ctx, S)
         ELSE IF IsClientTag(effect_type)
              THEN Return([S EXCEPT !.clientEffects = Append(@, e)], None)
         ELSE IF ~IsStr(effect_type) THEN Raise(S, "AttributeError")
         ELSE IF IsPytorchTag(effect_type) THEN execute_pytorch(e, ctx, S, nd)
         ELSE IF IsTensorTag(effect_type) THEN execute_tensor(e, ctx, S)
         ELSE Return(S, None)

---------------------------------------------------------------------------
(* core/event_bus.py: EventBus *)

\* an EventSubscription; tok is not a field of the dataclass: it numbers the
\* subscribe call that made the object, so that properties can tell two
\* equal subscriptions apart
Sub(event, handler, once, tok) ==
    [event |-> event, handler |-> handler, once |-> once, tok |-> tok]

NoSub == Sub(Str(<<>>), "", FALSE, 0)

\* a == b on EventSubscription: the dataclass compares its three fields
SameSub(a, b) == a.event = b.event /\ a.handler = b.handler /\ a.once = b.once

\* the handlers: a function that returns, a function that raises, and a
\* coroutine function that returns after a suspension
Handlers == {"handler", "bad_handler", "async_handler"}

\* asyncio.iscoroutinefunction(h)
IsCoroutine(h) == h = "async_handler"

Raises(h) == h = "bad_handler"

\* EventBus.__init__
BusInit ==
    /\ subscriptions = [x \in {} |-> 0]
    /\ busLists = <<>>
    /\ subscribed = <<>>
    /\ emits = <<>>
    /\ invocations = <<>>

\* the bus as one record B
Bus ==
    [subscriptions |-> subscriptions, busLists |-> busLists, emits |-> emits,
     invocations |-> invocations]

\* mutant: the new subscription is put in front of the list
C18_MutListAppend(lst, x) == <<x>> \o lst

\* lst.append(x)
ListAppend(lst, x) == Append(lst, x)

subscribe(B, event, handler, once, tok) ==
    LET B1 == IF event \in DOMAIN B.subscriptions THEN B
              ELSE [B EXCEPT !.busLists = Append(@, <<>>),
                             !.subscriptions = (event :> (Len(B.busLists) + 1)) @@ @]
    IN  [B1 EXCEPT !.busLists[B1.subscriptions[event]] =
                       ListAppend(@, Sub(event, handler, once, tok))]

\* payload or {}
Received(payload, h) == IF Truthy(payload, h) THEN payload ELSE Fresh

\* the emit numbered t calls sub's handler, or the handler returns or raises
Invoke(B, t, sub, ph, h) ==
    [B EXCEPT !.invocations =
        Append(@, [emit |-> t, tok |-> sub.tok, handler |-> sub.handler,
                   payload |-> Received(B.emits[t].payload, h), ph |-> ph])]

\* mutant: the exception ends the loop
C19_MutContinueAt(i, n) == n

\* except Exception: the loop goes on after position i of the n subscriptions
ContinueAt(i, n) == i

\* the handler of sub has finished: if sub.once: to_remove.append(sub), which
\* an exception skips
Settle(B, t, sub, h) ==
    IF Raises(sub.handler)
    THEN [Invoke(B, t, sub, "raise", h) EXCEPT
              !.emits[t].i = ContinueAt(@, Len(B.busLists[B.emits[t].list]))]
    ELSE LET B1 == Invoke(B, t, sub, "return", h) IN
         IF sub.once THEN [B1 EXCEPT !.emits[t].to_remove = Append(@, sub)] ELSE B1

HasSub(lst, sub) == \E i \in 1..Len(lst) : SameSub(lst[i], sub)

\* lst.remove(sub): the first element equal to sub goes
RemoveFirst(lst, sub) ==
    LET i == CHOOSE k \in 1..Len(lst) :
                 SameSub(lst[k], sub) /\ \A j \in 1..(k - 1) : ~SameSub(lst[j], sub)
    IN  SubSeq(lst, 1, i - 1) \o SubSeq(lst, i + 1, Len(lst))

\* for sub in to_remove: self._subscriptions[event].remove(sub)
RECURSIVE RemoveOnce(_, _, _)
RemoveOnce(B, t, rem) ==
    IF rem = <<>> THEN [B EXCEPT !.emits[t].pc = "done"]
    ELSE IF B.emits[t].event \notin DOMAIN B.subscriptions
         THEN [B EXCEPT !.emits[t].pc = "done", !.emits[t].exc = "KeyError"]
    ELSE IF ~HasSub(B.busLists[B.subscriptions[B.emits[t].event]], Head(rem))
         THEN [B EXCEPT !.emits[t].pc = "done", !.emits[t].exc = "ValueError"]
    ELSE RemoveOnce([B EXCEPT !.busLists[B.subscriptions[B.emits[t].event]] =
                                  RemoveFirst(@, Head(rem))],
                    t, Tail(rem))

\* the closure subscribe returns, called: the event's list is replaced by a
\* new list of the subscriptions that are not equal to sub
unsubscribe(B, sub) ==
    IF sub.event \notin DOMAIN B.subscriptions THEN B
    ELSE LET Other(x) == ~SameSub(x, sub) IN
         [B EXCEPT !.busLists = Append(@, SelectSeq(B.busLists[B.subscriptions[sub.event]], Other)),
                   !.subscriptions[sub.event] = Len(B.busLists) + 1]

\* d.pop(key, None) on the event map
Pop(subs, event) == [e \in DOMAIN subs \ {event} |-> subs[e]]

\* clear(event): `if event:` takes the else branch for None and for ""
clear(B, event, h) ==
    IF Truthy(event, h) THEN [B EXCEPT !.subscriptions = Pop(@, event)]
    ELSE [B EXCEPT !.subscriptions = [x \in {} |-> 0]]

\* the handlers that act on the bus while they run: a function that calls
\* the unsubscribe token of its own subscription, and a function that calls
\* bus.clear(event) for the event it is subscribed to
ReentrantHandlers == {"unsub_handler", "clear_handler"}

\* what the handler of sub does to the bus during its invocation
HandlerEffect(B, sub, h) ==
    IF sub.handler = "unsub_handler" THEN unsubscribe(B, sub)
    ELSE IF sub.handler = "clear_handler" THEN clear(B, sub.event, h)
    ELSE B

\* the loop of emit from its position to the next suspension (the await of a
\* coroutine handler) or to the end of emit; the loop iterates the list object
\* it started on and sees what is appended to it
RECURSIVE run_emit(_, _, _)
run_emit(B, t, h) ==
    LET task == B.emits[t]
        lst  == B.busLists[task.list]
    IN  IF task.i >= Len(lst) THEN RemoveOnce(B, t, task.to_remove)
        ELSE LET sub == lst[task.i + 1]
                 B1  == Invoke([B EXCEPT !.emits[t].i = @ + 1, !.emits[t].cur = sub],
                               t, sub, "call", h)
             IN  IF IsCoroutine(sub.handler) THEN [B1 EXCEPT !.emits[t].pc = "await"]
                 ELSE run_emit(Settle(HandlerEffect(B1, sub, h), t, sub, h), t, h)

\* an emit call; initial and since are not in the code: the subscriptions of
\* the event and the number of subscribe calls made when the emit started
EmitTask(event, payload, list, initial, since, pc) ==
    [event |-> event, payload |-> payload, list |-> list, i |-> 0,
     cur |-> NoSub, to_remove |-> <<>>, pc |-> pc, exc |-> "",
     initial |-> initial, since |-> since]

emit(B, event, payload, since, h) ==
    IF event \notin DOMAIN B.subscriptions
    THEN [B EXCEPT !.emits = Append(@, EmitTask(event, payload, 0, <<>>, since, "done"))]
    ELSE run_emit([B EXCEPT !.emits =
                       Append(@, EmitTask(event, payload, B.subscriptions[event],
                                          B.busLists[B.subscriptions[event]],
                                          since, "loop"))],
                  Len(B.emits) + 1, h)

\* the awaited handler of emit t finishes, and the loop goes on
resume(B, t, h) ==
    run_emit(Settle([B EXCEPT !.emits[t].pc = "loop"], t, B.emits[t].cur, h), t, h)

---------------------------------------------------------------------------
(* core/websocket.py: ConnectionManager *)

\* the WebSocket objects
Conns == {"c1", "c2", "c3"}

NoIds == [x \in {} |-> <<>>]

NoTypes == [x \in {} |-> NoIds]

\* ConnectionManager.__init__; every WebSocket is new (not yet accepted)
ManagerInit ==
    /\ active_connections = NoTypes
    /\ global_connections = <<>>
    /\ lock = 0
    /\ wsState = [c \in Conns |-> "connecting"]
    /\ tasks = <<>>
    /\ wire = [c \in Conns |-> <<>>]

\* the two structures of the registry as one record
Registry == [active |-> active_connections, global |-> global_connections]

\* if entity_type and entity_id
Scoped(type, id, h) == Truthy(type, h) /\ Truthy(id, h)

\* type in active_connections and id in active_connections[type]
HasList(reg, type, id) ==
    /\ type \in DOMAIN reg.active
    /\ id \in DOMAIN reg.active[type]

\* ws in lst
InList(lst, ws) == \E i \in 1..Len(lst) : lst[i] = ws

\* lst.remove(ws) guarded by `if ws in lst`: the first occurrence goes
RemoveConn(lst, ws) ==
    IF ~InList(lst, ws) THEN lst
    ELSE LET i == CHOOSE k \in 1..Len(lst) :
                     lst[k] = ws /\ \A j \in 1..(k - 1) : lst[j] # ws
         IN  SubSeq(lst, 1, i - 1) \o SubSeq(lst, i + 1, Len(lst))

\* del d[key]
DelKey(d, key) == [x \in DOMAIN d \ {key} |-> d[x]]

\* the body of connect under the lock
register(reg, ws, type, id, h) ==
    IF Scoped(type, id, h)
    THEN LET a1 == IF type \in DOMAIN reg.active THEN reg.active
                   ELSE (type :> NoIds) @@ reg.active
             a2 == IF id \in DOMAIN a1[type] THEN a1
                   ELSE [a1 EXCEPT ![type] = (id :> <<>>) @@ @]
         IN  [reg EXCEPT !.active = [a2 EXCEPT ![type][id] = Append(@, ws)]]
    ELSE [reg EXCEPT !.global = Append(@, ws)]

\* the body of disconnect under the lock, with the clean-up of an empty list
\* and of an empty map
unregister(reg, ws, type, id, h) ==
    IF Scoped(type, id, h)
    THEN IF HasList(reg, type, id)
         THEN LET lst == RemoveConn(reg.active[type][id], ws)
                  a1  == IF lst = <<>>
                         THEN [reg.active EXCEPT ![type] = DelKey(@, id)]
                         ELSE [reg.active EXCEPT ![type][id] = lst]
                  a2  == IF DOMAIN a1[type] = {} THEN DelKey(a1, type) ELSE a1
              IN  [reg EXCEPT !.active = a2]
         ELSE reg
    ELSE [reg EXCEPT !.global = RemoveConn(@, ws)]

\* mutant: the snapshot leaves out the scoped list
C23_MutSnapshotEntity(reg, type, id) == reg.global

\* the snapshot of broadcast_to_entity: the scoped list if present, then the
\* global list
snapshot_entity(reg, type, id) ==
    (IF HasList(reg, type, id) THEN reg.active[type][id] ELSE <<>>) \o reg.global

\* the snapshot of broadcast_global: list(self.global_connections)
snapshot_global(reg) == reg.global

\* mutant: the failed websockets are removed from the global list only
C25_MutEvict(reg, disconnected) ==
    LET Kept(ws) == \A k \in 1..Len(disconnected) : disconnected[k] # ws
    IN  [reg EXCEPT !.global = SelectSeq(@, Kept)]

\* the removal of the disconnected websockets: each goes from the global list
\* and from every scoped list; the lists and maps themselves stay
RECURSIVE evict(_, _)
evict(reg, disconnected) ==
    IF disconnected = <<>> THEN reg
    ELSE evict([active |-> [t \in DOMAIN reg.active |->
                               [i \in DOMAIN reg.active[t] |->
                                   RemoveConn(reg.active[t][i], Head(disconnected))]],
                global |-> RemoveConn(reg.global, Head(disconnected))],
               Tail(disconnected))

\* mutant: a task enters whether or not the lock is free
C27_MutLockFree(l) == TRUE

\* asyncio.Lock: acquire returns when no task holds the lock
LockFree(l) == l = 0

\* mutant: the first failed send ends the loop
C26_MutAfterSend(ok, last, failed) ==
    IF ~ok THEN "acquire"
    ELSE IF ~last THEN "send"
    ELSE IF failed = <<>> THEN "done" ELSE "acquire"

\* the position after one turn of the send loop; `if disconnected:` sends the
\* task for the lock again after the last turn
AfterSend(ok, last, failed) ==
    IF ~last THEN "send"
    ELSE IF failed = <<>> THEN "done" ELSE "acquire"

\* mutant: every text counts as a ping
C28_MutIsPing(text) == TRUE

\* main.py: if data == "ping"
IsPing(text) == text = W("ping")

\* a call on the manager, or an endpoint of main.py, as a task.  phase is the
\* critical section it is at or heading to, pc its position: "acquire"
\* (waiting for the lock), "locked" (holding it), "send" (in the send loop),
\* "receive" and "reply" (in the loop of an endpoint), "done".  after and
\* regAt are not in the code: the tasks that had finished when this one
\* started, and the registry as the snapshot found it
ManagerTask(op, ws, type, id, msg, phase, pc, e, after) ==
    [op |-> op, conn |-> ws, type |-> type, id |-> id, msg |-> msg,
     phase |-> phase, pc |-> pc, snap |-> <<>>, i |-> 0, sent |-> <<>>,
     failed |-> <<>>, exc |-> e, after |-> after,
     regAt |-> [active |-> NoTypes, global |-> <<>>]]

IsBroadcast(op) == op \in {"broadcast_to_entity", "broadcast_global"}

IsEndpoint(op) == op \in {"websocket_global", "websocket_entity"}

\* where a task goes when it leaves the critical section of its phase
\* mutant: a task that has evicted goes for the lock again
C33_MutAfterCritical(task, snap) ==
    CASE task.phase = "connect"    -> IF IsEndpoint(task.op) THEN "receive" ELSE "done"
      [] task.phase = "disconnect" -> "done"
      [] task.phase = "snapshot"   -> IF snap = <<>> THEN "done" ELSE "send"
      [] task.phase = "evict"      -> "acquire"

AfterCritical(task, snap) ==
    CASE task.phase = "connect"    -> IF IsEndpoint(task.op) THEN "receive" ELSE "done"
      [] task.phase = "disconnect" -> "done"
      [] task.phase = "snapshot"   -> IF snap = <<>> THEN "done" ELSE "send"
      [] task.phase = "evict"      -> "done"

\* the registry after the critical section of task
CriticalEffect(task, reg, h) ==
    CASE task.phase = "connect"    -> register(reg, task.conn, task.type, task.id, h)
      [] task.phase = "disconnect" -> unregister(reg, task.conn, task.type, task.id, h)
      [] task.phase = "snapshot"   -> reg
      [] task.phase = "evict"      -> evict(reg, task.failed)

\* the list the critical section of task copies
CriticalSnapshot(task, reg) ==
    IF task.phase # "snapshot" THEN task.snap
    ELSE IF task.op = "broadcast_to_entity" THEN snapshot_entity(reg, task.type, task.id)
    ELSE snapshot_global(reg)

\* nothing has been resolved outside a dispatcher, no subscription withdrawn,
\* and the connection manager is new
ExtInit ==
    /\ resolveLog = <<>>
    /\ busLog = <<>>
    /\ ManagerInit

---------------------------------------------------------------------------
(* The callers' inputs: the objects they hold when the dispatcher is built,
   the contexts and the effects they pass *)

Task == W("Task")

Binding(segs) == Str(<<"@">> \o segs)

\* heap at construction: address 1 is the shared empty dict, 2..4 are the
\* objects the contexts refer to, 5..10 the dict and list literals of the
\* effects, 11 the entity a seeded store holds, 12 a data literal without id
InitHeap == <<
    DictObj(EmptyMap),
    DictObj((<<"name">> :> W("n1")) @@ (ID :> W("t2"))),
    DictObj((<<"status">> :> W("pending")) @@ (ID :> W("t1"))),
    PlainObj((<<"mode">> :> W("train"))),
    DictObj((ID :> Binding(<<"entityId">>))),
    DictObj((<<"filter">> :> Ref(7))),
    ListObj(<<W("="), Binding(<<"entity", ".", "status">>), W("pending")>>),
    DictObj((<<"filter">> :> Ref(9))),
    ListObj(<<W("=")>>),
    DictObj((ID :> W("t2")) @@ (<<"name">> :> W("y"))),
    DictObj((ID :> W("t1")) @@ (<<"name">> :> W("a")) @@ (<<"status">> :> W("pending"))),
    DictObj((<<"name">> :> W("x")) @@ (<<"status">> :> W("pending")))
>>

Payload == Ref(2)

Entity == Ref(3)

Model == Ref(4)

\* the literals of the effects
IdOption == Ref(5)

FilterOption == Ref(6)

BadFilterOption == Ref(8)

NewData == Ref(10)

Seeded == Ref(11)

IdlessData == Ref(12)

EmptyContext == [x \in {} |-> None]

FullContext ==
    (<<"payload">> :> Payload) @@ (<<"entity">> :> Entity)
        @@ (<<"entityId">> :> W("t1")) @@ (<<"model">> :> Model)

\* a context whose entity is a scalar and whose entityId is empty
ScalarContext ==
    (<<"payload">> :> Payload) @@ (<<"entity">> :> W("scalar"))
        @@ (<<"entityId">> :> Str(<<>>))

Contexts == {EmptyContext, FullContext, ScalarContext}

EmptyStore == [x \in {} |-> <<>>]

\* the store after repository.create("Task", {"id": "t1", ...})
SeededStore == (Task :> << [id |-> W("t1"), a |-> Seeded.a] >>)

FetchEffects == {
    <<W("fetch")>>,
    <<W("fetch"), Task>>,
    <<W("fetch"), Task, IdOption>>,
    <<W("fetch"), Task, FilterOption>>,
    <<W("fetch"), Task, BadFilterOption>>
}

PersistEffects == {
    <<W("persist")>>,
    <<W("persist"), W("create"), Task, IdlessData>>,
    <<W("persist"), W("create"), Task, Binding(<<"payload">>)>>,
    <<W("persist"), W("create"), Task, IdOption>>,
    <<W("persist"), W("create"), Task, Binding(<<"missing">>)>>,
    <<W("persist"), W("update"), Task>>,
    <<W("persist"), W("update"), Task, NewData>>,
    <<W("persist"), W("update"), Task, Binding(<<"payload", ".", "name">>)>>,
    <<W("persist"), W("delete"), Task, NewData>>,
    <<W("persist"), W("archive"), Task, NewData>>
}

CallServiceEffects == {
    <<W("call_service")>>,
    <<W("call_service"), W("email"), W("send"), NewData>>
}

SetEffects == {
    <<W("set")>>,
    <<W("set"), Binding(<<"entity", ".", "status">>), W("done")>>,
    <<W("set"), Binding(<<"entity", ".", "meta", ".", "k">>), Binding(<<"payload", ".", "name">>)>>,
    <<W("set"), Binding(<<"entity", ".", "status", ".", "x">>), W("v")>>,
    <<W("set"), Binding(<<"model", ".", "mode">>), W("eval")>>,
    <<W("set"), Binding(<<"nope", ".", "x">>), W("v")>>,
    <<W("set"), Binding(<<"entity">>), W("v")>>,
    <<W("set"), W("status"), W("v")>>
}

ClientEffects == {
    <<W("render_ui"), W("main"), NewData>>,
    <<W("render-ui"), W("main")>>,
    <<W("navigate"), Str(<<"/", "x">>)>>,
    <<W("notify"), NewData>>,
    <<W("emit"), W("e"), Ref(1)>>
}

PytorchEffects == {
    <<Str(<<"nn", "/", "forward">>), Binding(<<"model">>), Binding(<<"payload">>)>>,
    <<Str(<<"train", "/", "loop">>), Binding(<<"model">>), Binding(<<"payload">>), Ref(1)>>,
    <<Str(<<"nn", "/", "other">>)>>
}

TensorEffects == { <<Str(<<"tensor", "/", "add">>), W("a")>> }

OtherEffects == {
    <<>>,
    <<W("unknown_effect"), W("arg")>>,
    <<W("EMIT"), W("e")>>,
    <<None>>
}

Effects == FetchEffects \cup PersistEffects \cup CallServiceEffects \cup SetEffects
           \cup ClientEffects \cup PytorchEffects \cup TensorEffects \cup OtherEffects

---------------------------------------------------------------------------
(* The state machine: one dispatcher, its repository and one request context *)

Init ==
    /\ heap = InitHeap
    /\ context \in Contexts
    /\ store \in {EmptyStore, SeededStore}
    /\ uuids = 0
    /\ data = [x \in {} |-> None]
    /\ clientEffects = <<>>
    /\ effectResults = <<>>
    /\ executed = <<>>
    /\ ret = None
    /\ exc = ""
    /\ repoLog = <<>>
    /\ BusInit
    /\ ExtInit

Current ==
    [heap |-> heap, store |-> store, uuids |-> uuids, data |-> data,
     clientEffects |-> clientEffects, effectResults |-> effectResults,
     ret |-> ret, exc |-> exc]

\* one call execute(e, context); nd is the outcome of the compute service
Call(e, nd) ==
    /\ Len(executed) < MaxSteps
    /\ LET S == execute(e, context, Current, nd) IN
        /\ heap' = S.heap
        /\ store' = S.store
        /\ uuids' = S.uuids
        /\ data' = S.data
        /\ clientEffects' = S.clientEffects
        /\ effectResults' = S.effectResults
        /\ ret' = S.ret
        /\ exc' = S.exc
    /\ executed' = Append(executed, e)
    /\ UNCHANGED <<context, repoLog, busVars, extVars>>

ExecuteFetch == \E e \in FetchEffects : Call(e, "ok")

ExecutePersist == \E e \in PersistEffects : Call(e, "ok")

ExecuteCallService == \E e \in CallServiceEffects : Call(e, "ok")

ExecuteSet == \E e \in SetEffects : Call(e, "ok")

ExecuteClient == \E e \in ClientEffects : Call(e, "ok")

ExecutePytorch == \E e \in PytorchEffects : \E nd \in ComputeOutcomes : Call(e, nd)

ExecuteTensor == \E e \in TensorEffects : Call(e, "ok")

ExecuteOther == \E e \in OtherEffects : Call(e, "ok")

Next ==
    \/ ExecuteFetch
    \/ ExecutePersist
    \/ ExecuteCallService
    \/ ExecuteSet
    \/ ExecuteClient
    \/ ExecutePytorch
    \/ ExecuteTensor
    \/ ExecuteOther

Spec == Init /\ [][Next]_vars

---------------------------------------------------------------------------
(* Properties *)

\* the effect of the most recent execute call
LastEffect == executed[Len(executed)]

\* an execute call has just been made
Called == executed' # executed

\* the objects that existed before the call are as they were
HeapKept == SubSeq(heap', 1, Len(heap)) = heap

\* effectResults has grown by exactly one record
OneResultAdded ==
    /\ Len(effectResults') = Len(effectResults) + 1
    /\ SubSeq(effectResults', 1, Len(effectResults)) = effectResults

LastResult == effectResults[Len(effectResults)]

EntityIdOf(ctx) == IF <<"entityId">> \in DOMAIN ctx THEN ctx[<<"entityId">>] ELSE None

\* every id some entity of the type is stored under
IdsOf(st, type) == {TypeEntries(st, type)[i].id : i \in 1..Len(TypeEntries(st, type))}

\* the store holds the same entity objects under every id other than id
OthersKept(type, id) ==
    \A j \in (IdsOf(store, type) \cup IdsOf(store', type)) \ {id} :
        Lookup(store', type, j) = Lookup(store, type, j)

C1_ClientTagNames == {"render_ui", "render-ui", "navigate", "notify", "emit"}

C1_IsClient(e) ==
    /\ e # <<>>
    /\ e[1].k = "str"
    /\ Len(e[1].s) = 1
    /\ e[1].s[1] \in C1_ClientTagNames

\* C1: after any sequence of execute calls, clientEffects is exactly the
\* sequence of the executed effects whose tag is render_ui, render-ui,
\* navigate, notify or emit, in execution order and as supplied; when only
\* such effects were executed, effectResults is empty.
C1_ClientEffectsInOrder ==
    /\ clientEffects = SelectSeq(executed, C1_IsClient)
    /\ (\A i \in 1..Len(executed) : C1_IsClient(executed[i])) => effectResults = <<>>

C1_Witness ==
    /\ Len(clientEffects) = 2
    /\ clientEffects[1] = <<W("notify"), NewData>>
    /\ clientEffects[2] = <<W("navigate"), Str(<<"/", "x">>)>>
    /\ effectResults = <<>>

\* C2: execute never raises on a data-shape mismatch of the effect (a
\* missing positional argument, a null data, a target through a scalar, a
\* non-string tag); only a fault of the compute service may surface.
C2_NeverRaises == exc \in {"", "RuntimeError"}

C3_SetCase(e, ctx) ==
    /\ Len(e) >= 3
    /\ e[1] = W("set")
    /\ IsStr(e[2])
    /\ StartsWith(e[2].s, <<"@">>)
    /\ Len(Split(Tail(e[2].s))) >= 2
    /\ Split(Tail(e[2].s))[1] \in DOMAIN ctx

\* C3: when execute(["set", "@r.p1...pn", v], context) returns, with r in
\* the context and n >= 1, the binding @r.p1...pn resolves in that context
\* to the value v resolved to, also when an intermediate segment was missing.
C3_SetThenResolves ==
    [][(Called /\ C3_SetCase(LastEffect', context) /\ exc' = "")
        => resolve_binding(LastEffect'[2], context, heap')
             = resolve_binding(LastEffect'[3], context, heap)]_vars

C4_IsPersist(e) == e # <<>> /\ e[1] = W("persist")

\* C4: every execution of a persist effect appends exactly one EffectResult
\* with effect = persist, the effect's action and entityType, and success
\* equal to (the returned result is not null).
C4_PersistAppendsOne ==
    [][(Called /\ C4_IsPersist(LastEffect'))
        => /\ OneResultAdded
           /\ LastResult'["effect"] = W("persist")
           /\ LastResult'["action"] = LastEffect'[2]
           /\ LastResult'["entityType"] = LastEffect'[3]
           /\ LastResult'["success"] = Bool(ret' # None)]_vars

\* a persist create whose data argument resolves to a map
C5_CreateCase(e, ctx, h) ==
    /\ Len(e) = 4
    /\ e[1] = W("persist")
    /\ e[2] = W("create")
    /\ IsDict(resolve_binding(e[4], ctx, h), h)

\* C5: executing ["persist", "create", T, d], d a map or a binding that
\* resolves to a map, returns an entity that has an id and the fields of the
\* resolved d; get(T, id) then returns that entity, and the single
\* EffectResult appended has action = create and success = true.
C5_CreateStoresEntity ==
    [][(Called /\ C5_CreateCase(LastEffect', context, heap))
        => LET d == heap[resolve_binding(LastEffect'[4], context, heap).a].d IN
           /\ exc' = ""
           /\ IsDict(ret', heap')
           /\ ID \in DOMAIN heap'[ret'.a].d
           /\ Truthy(heap'[ret'.a].d[ID], heap')
           /\ \A f \in DOMAIN d \ {ID} :
                 f \in DOMAIN heap'[ret'.a].d /\ heap'[ret'.a].d[f] = d[f]
           /\ (ID \in DOMAIN d /\ Truthy(d[ID], heap)) => heap'[ret'.a].d[ID] = d[ID]
           /\ Lookup(store', LastEffect'[3], heap'[ret'.a].d[ID]) = ret'
           /\ OneResultAdded
           /\ LastResult'["action"] = W("create")
           /\ LastResult'["success"] = Bool(TRUE)]_vars

C5_Witness ==
    /\ executed # <<>>
    /\ LastEffect = <<W("persist"), W("create"), Task, Binding(<<"payload">>)>>
    /\ IsDict(ret, heap)
    /\ heap[ret.a].d[<<"name">>] = W("n1")
    /\ Lookup(store, Task, W("t2")) = ret

C6_UpdateCase(e) == Len(e) >= 3 /\ e[1] = W("persist") /\ e[2] = W("update")

\* the resolved data argument of a persist effect
C6_Data(e, ctx, h) == IF Len(e) > 3 THEN resolve_binding(e[4], ctx, h) ELSE DefaultDict

\* data.id when the resolved data is a map, else null
C6_DataId(e, ctx, h) ==
    IF IsDict(C6_Data(e, ctx, h), h) /\ ID \in DOMAIN h[C6_Data(e, ctx, h).a].d
    THEN h[C6_Data(e, ctx, h).a].d[ID]
    ELSE None

\* C6: persist update works on the entity whose id is context.entityId, and
\* on the one whose id is data.id only when the context carries no entityId
\* (absent, null or empty) and the resolved data is a map; when neither
\* yields an id, no storage operation is performed, storage is unchanged,
\* the result is null and the recorded success is false.
C6_UpdateIdChoice ==
    [][(Called /\ C6_UpdateCase(LastEffect'))
        => LET e   == LastEffect'
               cid == EntityIdOf(context)
               did == C6_DataId(e, context, heap)
           IN  IF Truthy(cid, heap)
               THEN /\ OthersKept(e[3], cid)
                    /\ exc' = "" => (ret' # None /\ ret' = Lookup(store', e[3], cid))
               ELSE IF Truthy(did, heap)
               THEN /\ OthersKept(e[3], did)
                    /\ exc' = "" /\ ret' # None /\ ret' = Lookup(store', e[3], did)
               ELSE /\ store' = store
                    /\ heap' = heap
                    /\ exc' = "" /\ ret' = None
                    /\ OneResultAdded
                    /\ LastResult'["success"] = Bool(FALSE)]_vars

C6_Witness ==
    /\ executed # <<>>
    /\ LastEffect = <<W("persist"), W("update"), Task, NewData>>
    /\ ~Truthy(EntityIdOf(context), heap)
    /\ ret # None
    /\ ret = Lookup(store, Task, W("t2"))
    /\ Lookup(store, Task, W("t1")) = Seeded

C7_DeleteCase(e) == Len(e) >= 3 /\ e[1] = W("persist") /\ e[2] = W("delete")

\* C7: persist delete takes the entity id from context.entityId only: when
\* it is absent (or null or empty) no storage operation is performed,
\* storage is unchanged and the result is null; when it is present, get of
\* that type and id returns null afterwards, every other entity stays, and
\* the result is {deleted: true, id: entityId}.
C7_DeleteByContextId ==
    [][(Called /\ C7_DeleteCase(LastEffect'))
        => LET e   == LastEffect'
               cid == EntityIdOf(context)
           IN  IF Truthy(cid, heap)
               THEN /\ exc' = ""
                    /\ Lookup(store', e[3], cid) = None
                    /\ OthersKept(e[3], cid)
                    /\ IsDict(ret', heap')
                    /\ heap'[ret'.a].d = (<<"deleted">> :> Bool(TRUE)) @@ (ID :> cid)
               ELSE /\ store' = store
                    /\ heap' = heap
                    /\ exc' = "" /\ ret' = None]_vars

C7_Witness ==
    /\ Len(executed) = 2
    /\ executed[1] = <<W("fetch"), Task, IdOption>>
    /\ Task \in DOMAIN data /\ data[Task] = Seeded
    /\ executed[2] = <<W("persist"), W("delete"), Task, NewData>>
    /\ EntityIdOf(context) = W("t1")
    /\ Lookup(store, Task, W("t1")) = None
    /\ IsDict(ret, heap)

C8_ServiceCase(e) == Len(e) >= 3 /\ e[1] = W("call_service")

\* C8: every call_service effect with a service and a method returns
\* {service, method, status: "not_implemented"}, appends exactly one
\* EffectResult with success = false, raises nothing and leaves storage, the
\* context, data and clientEffects unchanged.
C8_CallServiceSoftFailure ==
    [][(Called /\ C8_ServiceCase(LastEffect'))
        => LET e == LastEffect' IN
           /\ exc' = ""
           /\ IsDict(ret', heap')
           /\ heap'[ret'.a].d = (<<"service">> :> e[2]) @@ (<<"method">> :> e[3])
                                  @@ (<<"status">> :> W("not_implemented"))
           /\ OneResultAdded
           /\ LastResult'["effect"] = W("call_service")
           /\ LastResult'["success"] = Bool(FALSE)
           /\ store' = store
           /\ HeapKept
           /\ data' = data
           /\ clientEffects' = clientEffects]_vars

C8_Witness ==
    /\ Len(executed) = 2
    /\ LastEffect = <<W("call_service"), W("email"), W("send"), NewData>>
    /\ Len(effectResults) = 2
    /\ LastResult["success"] = Bool(FALSE)
    /\ IsDict(ret, heap)

C9_KnownTagNames ==
    {"fetch", "persist", "call_service", "set",
     "render_ui", "render-ui", "navigate", "notify", "emit"}

\* an effect whose tag is a string other than the nine dispatched tags
C9_UnknownTag(e) ==
    /\ e # <<>>
    /\ IsStr(e[1])
    /\ ~(Len(e[1].s) = 1 /\ e[1].s[1] \in C9_KnownTagNames)

C9_ComputeTags == {Str(<<"nn", "/", "forward">>), Str(<<"train", "/", "loop">>)}

\* execute returned null and changed nothing
C9_NullAndNoChange ==
    /\ exc' = "" /\ ret' = None
    /\ heap' = heap
    /\ store' = store
    /\ data' = data
    /\ clientEffects' = clientEffects
    /\ effectResults' = effectResults

\* C9 as stated: for every effect whose tag is not one of fetch, persist,
\* call_service, set, render_ui, render-ui, navigate, notify, emit, execute
\* returns null and leaves data, clientEffects, effectResults, the context
\* and storage unchanged.
C9_UnknownTagIsNoop ==
    [][(Called /\ C9_UnknownTag(LastEffect')) => C9_NullAndNoChange]_vars

\* C9 amended: the same for every tag that is, in addition, neither
\* nn/forward nor train/loop, the two tags handed to the compute service.
C9_UnknownTagIsNoopAmended ==
    [][(Called /\ C9_UnknownTag(LastEffect') /\ LastEffect'[1] \notin C9_ComputeTags)
        => C9_NullAndNoChange]_vars

C9_Witness ==
    /\ Len(executed) = 2
    /\ LastEffect = <<W("EMIT"), W("e")>>
    /\ ret = None /\ exc = ""
    /\ Len(effectResults) = 1
    /\ data = [x \in {} |-> None]

C10_FetchCase(e, h) ==
    /\ Len(e) >= 2
    /\ e[1] = W("fetch")
    /\ Len(e) > 2 => IsDict(e[3], h)

C10_Options(e, h) == IF Len(e) > 2 THEN h[e[3].a].d ELSE EmptyMap

\* C10: fetch with options.id stores in data[entityType] the result of
\* storage get for the resolved id (null when there is no such entity) and
\* returns it; fetch without options.id stores and returns a list of the
\* stored entities of that type (all of them when no filter is given);
\* storage, clientEffects and effectResults are unchanged.
C10_FetchStoresResult ==
    [][(Called /\ C10_FetchCase(LastEffect', heap))
        => LET e  == LastEffect'
               od == C10_Options(e, heap)
           IN  /\ exc' = ""
               /\ e[2] \in DOMAIN data'
               /\ ret' = data'[e[2]]
               /\ IF ID \in DOMAIN od
                  THEN ret' = Lookup(store, e[2], resolve_binding(od[ID], context, heap))
                  ELSE /\ IsList(ret', heap')
                       /\ \A i \in 1..Len(heap'[ret'.a].l) :
                             heap'[ret'.a].l[i] \in {Ref(a) : a \in
                                {TypeEntries(store, e[2])[j].a : j \in 1..Len(TypeEntries(store, e[2]))}}
                       /\ <<"filter">> \notin DOMAIN od
                             => heap'[ret'.a].l = RefsOf(TypeEntries(store, e[2]))
               /\ store' = store
               /\ clientEffects' = clientEffects
               /\ effectResults' = effectResults]_vars

\* C30: every record in effectResults, whichever effect produced it (persist,
\* call_service or set), carries the fields effect, data and success
C30_AuditRecordFields ==
    \A i \in 1..Len(effectResults) :
        {"effect", "data", "success"} \subseteq DOMAIN effectResults[i]

\* a set effect that has a target and a value
C31_SetCase(e) == Len(e) >= 3 /\ e[1] = W("set")

\* the target of a set effect names nothing to write: it is not an
\* @-binding string, it has a single segment, or its root is not in ctx
C31_NoTarget(e, ctx) ==
    \/ ~IsStr(e[2])
    \/ ~StartsWith(e[2].s, <<"@">>)
    \/ Len(Split(Tail(e[2].s))) < 2
    \/ Split(Tail(e[2].s))[1] \notin DOMAIN ctx

\* C31: every set effect that has a target and a value appends exactly one
\* EffectResult with effect = set and success = true and returns the
\* resolved value; when the target's root is absent from the context, the
\* target has a single segment or the target is not an @-binding string, the
\* context and the objects it refers to are left unchanged
C31_SetAppendsOne ==
    [][(Called /\ C31_SetCase(LastEffect'))
        => /\ exc' = ""
           /\ ret' = resolve_binding(LastEffect'[3], context, heap)
           /\ OneResultAdded
           /\ LastResult'["effect"] = W("set")
           /\ LastResult'["success"] = Bool(TRUE)
           /\ C31_NoTarget(LastEffect', context) => (heap' = heap /\ context' = context)]_vars

\* lst' is lst with n entries added at the end
C32_Grown(lst, lstAfter, n) ==
    /\ Len(lstAfter) = Len(lst) + n
    /\ SubSeq(lstAfter, 1, Len(lst)) = lst

C32_AuditTags == {W("persist"), W("call_service"), W("set")}

C39_DeleteAlwaysSucceeds ==
    [][(Called /\ C7_DeleteCase(LastEffect') /\ Truthy(EntityIdOf(context), heap))
        => /\ exc' = ""
           /\ IsDict(ret', heap')
           /\ heap'[ret'.a].d = (<<"deleted">> :> Bool(TRUE)) @@ (ID :> EntityIdOf(context))
           /\ OneResultAdded
           /\ LastResult'["effect"] = W("persist")
           /\ LastResult'["action"] = W("delete")
           /\ LastResult'["data"] = ret'
           /\ LastResult'["success"] = Bool(TRUE)]_vars

\* a persist delete ran on a store that never held the type, and reported
\* the deletion
C39_Witness ==
    /\ Len(executed) = 1
    /\ C7_DeleteCase(LastEffect)
    /\ Truthy(EntityIdOf(context), heap)
    /\ store = EmptyStore
    /\ IsDict(ret, heap)
    /\ heap[ret.a].d[<<"deleted">>] = Bool(TRUE)
    /\ LastResult["success"] = Bool(TRUE)

---------------------------------------------------------------------------
(* The storage provider called directly: one InMemoryRepository and a client
   that calls get, list, create, update, delete and _apply_filter, and runs
   fetch effects on it through a dispatcher *)

Note == W("Note")

\* the client's objects: those of InitHeap, then the filter literals
\* ["=", "@entity.status"], [">", "@entity.status", "pending"] and
\* ["=", "status", "pending"], then two more entities of a seeded store
RepoHeap == InitHeap \o <<
    ListObj(<<W("="), Binding(<<"entity", ".", "status">>)>>),
    ListObj(<<W(">"), Binding(<<"entity", ".", "status">>), W("pending")>>),
    ListObj(<<W("="), W("status"), W("pending")>>),
    DictObj((ID :> W("t2")) @@ (<<"name">> :> W("b")) @@ (<<"status">> :> W("pending"))),
    DictObj((ID :> W("t3")) @@ (<<"name">> :> W("c")) @@ (<<"status">> :> W("done")))
>>

StatusFilter == Ref(7)

OneElementFilter == Ref(9)

TwoElementFilter == Ref(13)

GreaterFilter == Ref(14)

PlainPathFilter == Ref(15)

Filters == {None, StatusFilter, OneElementFilter, TwoElementFilter,
            GreaterFilter, PlainPathFilter, W("status")}

\* the store after seed("Task", [t1, t2, t3])
RepoSeededStore ==
    (Task :> << [id |-> W("t1"), a |-> 11], [id |-> W("t2"), a |-> 16],
                [id |-> W("t3"), a |-> 17] >>)

RepoTypes == {Task, Note}

RepoIds == {W("t1"), W("t9")}

RepoData == {NewData, IdlessData}

RepoContexts == {EmptyContext, FullContext}

\* the (type, filter, context) triples list is called with
ListCalls ==
    {<<Task, f, ctx>> : f \in Filters, ctx \in RepoContexts}
        \cup {<<Note, None, EmptyContext>>, <<Note, StatusFilter, FullContext>>}

RepoFetchEffects == { <<W("fetch"), Task>>, <<W("fetch"), Task, FilterOption>> }

RepoInit ==
    /\ heap = RepoHeap
    /\ context = EmptyContext
    /\ store \in {EmptyStore, RepoSeededStore}
    /\ uuids = 0
    /\ data = [x \in {} |-> None]
    /\ clientEffects = <<>>
    /\ effectResults = <<>>
    /\ executed = <<>>
    /\ ret = None
    /\ exc = ""
    /\ repoLog = <<>>
    /\ BusInit
    /\ ExtInit

\* one entry of repoLog: the method, its arguments (None or the empty context
\* for those it does not take) and its outcome; id is the key a create
\* stored its entity under
LogEntry(op, type, id, dat, f, ctx, v, e) ==
    [op |-> op, type |-> type, id |-> id, dat |-> dat, f |-> f, ctx |-> ctx,
     ret |-> v, exc |-> e]

\* the state after a storage call with outcome r
RepoCall(r, entry) ==
    /\ Len(repoLog) < MaxCalls
    /\ heap' = r.heap
    /\ store' = r.store
    /\ uuids' = r.uuids
    /\ ret' = r.val
    /\ exc' = r.exc
    /\ repoLog' = Append(repoLog, entry)
    /\ UNCHANGED <<context, data, clientEffects, effectResults, executed, busVars, extVars>>

\* e["id"] of the entity the last call returned, for a client that reads it
ReturnedIds ==
    IF IsDict(ret, heap) /\ ID \in DOMAIN heap[ret.a].d THEN {heap[ret.a].d[ID]} ELSE {}

RepoGet ==
    \E type \in RepoTypes : \E id \in RepoIds \cup ReturnedIds :
        LET r == repo_get(heap, store, uuids, type, id) IN
        RepoCall(r, LogEntry("get", type, id, None, None, EmptyContext, r.val, r.exc))

RepoList ==
    \E c \in ListCalls :
        LET r == repo_list(heap, store, uuids, c[1], c[2], c[3]) IN
        RepoCall(r, LogEntry("list", c[1], None, None, c[2], c[3], r.val, r.exc))

RepoCreate ==
    \E type \in RepoTypes : \E dat \in RepoData :
        LET r  == repo_create(heap, store, uuids, type, dat)
            id == IF r.exc = "" THEN r.heap[r.val.a].d[ID] ELSE None
        IN  RepoCall(r, LogEntry("create", type, id, dat, None, EmptyContext, r.val, r.exc))

RepoUpdate ==
    \E id \in RepoIds : \E dat \in RepoData :
        LET r == repo_update(heap, store, uuids, Task, id, dat) IN
        RepoCall(r, LogEntry("update", Task, id, dat, None, EmptyContext, r.val, r.exc))

RepoDelete ==
    \E type \in RepoTypes : \E id \in RepoIds :
        LET r == repo_delete(heap, store, uuids, type, id) IN
        RepoCall(r, LogEntry("delete", type, id, None, None, EmptyContext, r.val, r.exc))

\* repository._apply_filter(entities, f, ctx) on the list the last call
\* returned; it returns that same list when it does not filter
RepoApplyFilter ==
    /\ IsList(ret, heap)
    /\ \E f \in Filters : \E ctx \in RepoContexts :
        LET fr == apply_filter(heap[ret.a].l, f, heap)
            r  == IF fr.exc # "" THEN Res(heap, store, uuids, None, fr.exc)
                  ELSE IF fr.new
                       THEN Res(Append(heap, ListObj(fr.ents)), store, uuids,
                                Ref(Len(heap) + 1), "")
                       ELSE Res(heap, store, uuids, ret, "")
        IN  RepoCall(r, LogEntry("apply_filter", None, None, ret, f, ctx, r.val, r.exc))

\* a dispatcher built on the repository executes one fetch effect
RepoFetch ==
    /\ Len(repoLog) < MaxCalls
    /\ \E e \in RepoFetchEffects : \E ctx \in RepoContexts :
        LET S == execute(e, ctx, Current, "ok") IN
        /\ heap' = S.heap
        /\ store' = S.store
        /\ uuids' = S.uuids
        /\ data' = S.data
        /\ clientEffects' = S.clientEffects
        /\ effectResults' = S.effectResults
        /\ ret' = S.ret
        /\ exc' = S.exc
        /\ executed' = Append(executed, e)
        /\ repoLog' = Append(repoLog,
               LogEntry("fetch", e[2], None, None,
                        IF Len(e) > 2 THEN DictGet(heap[e[3].a].d, <<"filter">>, None) ELSE None,
                        ctx, S.ret, S.exc))
    /\ UNCHANGED <<context, busVars, extVars>>

RepoNext ==
    \/ RepoGet
    \/ RepoList
    \/ RepoCreate
    \/ RepoUpdate
    \/ RepoDelete
    \/ RepoApplyFilter
    \/ RepoFetch

RepoSpec == RepoInit /\ [][RepoNext]_vars

---------------------------------------------------------------------------
(* Properties of the storage provider *)

\* the most recent repository call, before and after a step
LastCall == repoLog[Len(repoLog)]

NewCall == repoLog'[Len(repoLog')]

\* a repository call of method op has just been made
RepoCalled(op) == repoLog' # repoLog /\ NewCall.op = op

\* the fields of the dict that v refers to
Fields(v, h) == h[v.a].d

\* the items of the list that v refers to, as a set
Items(v, h) == {h[v.a].l[i] : i \in 1..Len(h[v.a].l)}

\* every entity of the type, and every stored entity object
AllOf(st, type) == {Ref(TypeEntries(st, type)[i].a) : i \in 1..Len(TypeEntries(st, type))}

\* the entity objects stored before the call are stored under the same keys
\* and have the same fields after it
StoreKept ==
    /\ \A t \in DOMAIN store : t \in DOMAIN store' /\
          \A i \in 1..Len(store[t]) :
              /\ Lookup(store', t, store[t][i].id) = Ref(store[t][i].a)
              /\ heap'[store[t][i].a] = heap[store[t][i].a]
    /\ HeapKept

C11_Premise ==
    /\ repoLog # <<>>
    /\ LastCall.op = "create"
    /\ LastCall.exc = ""
    /\ RepoCalled("get")
    /\ NewCall.type = LastCall.type
    /\ NewCall.id = Fields(LastCall.ret, heap)[ID]

C11_SameEntity ==
    /\ exc' = ""
    /\ ret' = LastCall.ret
    /\ Fields(ret', heap') = Fields(LastCall.ret, heap)
    /\ Fields(ret', heap')[ID] = NewCall.id
    /\ DOMAIN Fields(ret', heap') = DOMAIN Fields(LastCall.dat, heap) \cup {ID}
    /\ \A k \in DOMAIN Fields(LastCall.dat, heap) \ {ID} :
          Fields(ret', heap')[k] = Fields(LastCall.dat, heap)[k]

\* C11: get(type, e.id) performed right after e = create(type, data) returns
\* an entity equal to e: it has e's id, and its other fields are those of data
C11_CreateThenGet == [][C11_Premise => C11_SameEntity]_vars

\* a create of id-less data was followed by a get of the generated id
C11_Witness ==
    /\ Len(repoLog) >= 2
    /\ repoLog[Len(repoLog) - 1].op = "create"
    /\ repoLog[Len(repoLog) - 1].dat = IdlessData
    /\ LastCall.op = "get"
    /\ LastCall.id = repoLog[Len(repoLog) - 1].id
    /\ LastCall.type = repoLog[Len(repoLog) - 1].type
    /\ ret = repoLog[Len(repoLog) - 1].ret
    /\ ret # None

\* C12's cases: update(type, id, data) with a data map, on a missing id and
\* on a stored one
C12_Upsert ==
    LET type == NewCall.type
        id   == NewCall.id
        dat  == Fields(NewCall.dat, heap)
        old  == Lookup(store, type, id)
        new  == Fields(ret', heap')
    IN  /\ exc' = ""
        /\ IsDict(ret', heap')
        /\ Lookup(store', type, id) = ret'
        /\ old = None =>
              /\ new[ID] = id
              /\ DOMAIN new = DOMAIN dat \cup {ID}
              /\ \A k \in DOMAIN dat \ {ID} : new[k] = dat[k]
        /\ old # None =>
              /\ ret' = old
              /\ DOMAIN new = DOMAIN Fields(old, heap) \cup DOMAIN dat
              /\ \A k \in DOMAIN dat : new[k] = dat[k]
              /\ \A k \in DOMAIN Fields(old, heap) \ DOMAIN dat :
                    new[k] = Fields(old, heap)[k]

\* C12: update is an upsert that never fails for a missing id: on a missing
\* id it stores and returns an entity with the requested id and the fields of
\* data; on a stored id it returns the stored entity with the fields of data
\* overwritten and every other field preserved
C12_UpdateIsUpsert == [][RepoCalled("update") => C12_Upsert]_vars

\* both cases have happened: t9 was created by an update, then updated again
\* with data that has no name
C12_Witness ==
    /\ Len(repoLog) >= 2
    /\ repoLog[Len(repoLog) - 1].op = "update"
    /\ repoLog[Len(repoLog) - 1].id = W("t9")
    /\ repoLog[Len(repoLog) - 1].dat = NewData
    /\ LastCall.op = "update"
    /\ LastCall.id = W("t9")
    /\ LastCall.dat = IdlessData
    /\ exc = ""
    /\ Fields(ret, heap)[ID] = W("t9")
    /\ Fields(ret, heap)[<<"name">>] = W("x")

\* no create or update of (type, id) is logged after position j
C13_NoWriteSince(j, type, id) ==
    \A k \in (j + 1)..Len(repoLog) :
        ~(/\ repoLog[k].op \in {"create", "update"}
          /\ repoLog[k].type = type
          /\ repoLog[k].id = id)

C13_Delete ==
    LET type == NewCall.type
        id   == NewCall.id
    IN  /\ exc' = ""
        /\ Lookup(store, type, id) # None =>
              /\ ret' = Bool(TRUE)
              /\ Lookup(store', type, id) = None
        /\ Lookup(store, type, id) = None =>
              /\ ret' = Bool(FALSE)
              /\ store' = store
              /\ heap' = heap
        /\ (\E j \in 1..Len(repoLog) :
               /\ repoLog[j].op = "delete"
               /\ repoLog[j].type = type
               /\ repoLog[j].id = id
               /\ C13_NoWriteSince(j, type, id)) => ret' = Bool(FALSE)

\* C13: delete(type, id) returns true on the first call when the entity
\* exists and false on every later call with no create or update of that id
\* in between; delete of an id that is not stored returns false, raises
\* nothing and changes nothing
C13_DeleteLaw == [][RepoCalled("delete") => C13_Delete]_vars

\* a stored entity was deleted twice in a row: true, then false
C13_Witness ==
    /\ Len(repoLog) >= 2
    /\ repoLog[Len(repoLog) - 1].op = "delete"
    /\ repoLog[Len(repoLog) - 1].ret = Bool(TRUE)
    /\ LastCall.op = "delete"
    /\ LastCall.type = repoLog[Len(repoLog) - 1].type
    /\ LastCall.id = repoLog[Len(repoLog) - 1].id
    /\ LastCall.ret = Bool(FALSE)

\* every key some entity is stored under, over all types
C14_StoredIds == UNION {IdsOf(store, t) : t \in DOMAIN store}

C14_Create ==
    LET type  == NewCall.type
        given == DictGet(Fields(NewCall.dat, heap), ID, None)
        key   == Fields(ret', heap')[ID]
    IN  /\ exc' = ""
        /\ IsDict(ret', heap')
        /\ Lookup(store', type, key) = ret'
        /\ Truthy(given, heap) => key = given
        /\ ~Truthy(given, heap) =>
              /\ key \notin C14_StoredIds
              /\ StoreKept

\* C14: create stores the entity under data.id when data carries an id and
\* otherwise under a fresh id that differs from every stored id; the returned
\* entity's id field equals the key it is stored under; a create without an
\* id leaves every stored entity in place and unaltered
C14_CreateKey == [][RepoCalled("create") => C14_Create]_vars

\* id-less data was created into a store that already held three Tasks
C14_Witness ==
    /\ repoLog # <<>>
    /\ LastCall.op = "create"
    /\ LastCall.dat = IdlessData
    /\ LastCall.type = Task
    /\ exc = ""
    /\ Len(TypeEntries(store, Task)) = 4
    /\ Lookup(store, Task, W("t1")) = Ref(11)

\* f is the 3-element list ["=", "@entity.<field>", v]
WellFormedFilter(f, h) ==
    /\ IsList(f, h)
    /\ Len(h[f.a].l) = 3
    /\ h[f.a].l[1] = W("=")
    /\ IsStr(h[f.a].l[2])
    /\ StartsWith(h[f.a].l[2].s, EntityPrefix)
    /\ Len(h[f.a].l[2].s) > Len(EntityPrefix)

\* the field name and the value of a well-formed filter
FilterField(f, h) == SubSeq(h[f.a].l[2].s, Len(EntityPrefix) + 1, Len(h[f.a].l[2].s))

FilterValue(f, h) == h[f.a].l[3]

\* the stored entities of the type whose field equals v
Matching(st, type, field, v, h) ==
    {e \in AllOf(st, type) : field \in DOMAIN Fields(e, h) /\ Fields(e, h)[field] = v}

\* the call returned a list holding exactly the entities of set S, each once
ReturnsExactly(S) ==
    /\ exc' = ""
    /\ IsList(ret', heap')
    /\ Items(ret', heap') = S
    /\ Len(heap'[ret'.a].l) = Cardinality(S)

C15_List ==
    LET type == NewCall.type
        f    == NewCall.f
        ctx  == NewCall.ctx
    IN  /\ (WellFormedFilter(f, heap) /\ DOMAIN ctx # {}) =>
              ReturnsExactly(Matching(store, type, FilterField(f, heap),
                                      FilterValue(f, heap), heap))
        /\ (f = None \/ DOMAIN ctx = {}) => ReturnsExactly(AllOf(store, type))

C15_Fetch ==
    (NewCall.f # None /\ DOMAIN NewCall.ctx = {}) =>
        /\ ReturnsExactly(AllOf(store, NewCall.type))
        /\ data'[NewCall.type] = ret'

\* C15: list returns exactly the stored entities of the type whose field f
\* equals v when the filter is the triple (=, @entity.f, v) and the context is
\* non-empty, and every stored entity of the type when the filter is absent or
\* the context is empty; a fetch effect with a filter, executed with an empty
\* context, returns the unfiltered list
C15_ListFiltering ==
    [][/\ RepoCalled("list") => C15_List
       /\ RepoCalled("fetch") => C15_Fetch]_vars

\* a filtered list returned two of three stored Tasks
C15_Witness ==
    /\ repoLog # <<>>
    /\ LastCall.op = "list"
    /\ LastCall.f = StatusFilter
    /\ LastCall.ctx = FullContext
    /\ IsList(ret, heap)
    /\ Len(heap[ret.a].l) = 2
    /\ Len(TypeEntries(store, LastCall.type)) = 3

\* C16: for a non-empty context and a filter that is not a well-formed
\* (=, @entity.<field>, value) triple, list returns every stored entity of
\* the type and does not raise
C16_MalformedFilterIgnored ==
    [][(/\ RepoCalled("list")
        /\ DOMAIN NewCall.ctx # {}
        /\ ~WellFormedFilter(NewCall.f, heap))
       => ReturnsExactly(AllOf(store, NewCall.type))]_vars

C17_Premise ==
    /\ repoLog # <<>>
    /\ LastCall.exc = ""
    /\ \/ LastCall.op = "apply_filter"
       \/ /\ LastCall.op = "list"
          /\ Truthy(LastCall.f, heap)
          /\ DOMAIN LastCall.ctx # {}
    /\ RepoCalled("apply_filter")
    /\ NewCall.f = LastCall.f
    /\ NewCall.dat = LastCall.ret

\* C17: applying the same filter to the result of a filtered list yields the
\* same set of entities as applying it once
C17_FilterIdempotent ==
    [][C17_Premise =>
          /\ exc' = ""
          /\ Items(ret', heap') = Items(LastCall.ret, heap)
          /\ Len(heap'[ret'.a].l) = Len(heap[LastCall.ret.a].l)]_vars

\* the status filter was applied to the two Tasks a filtered list of three
\* had returned
C17_Witness ==
    /\ Len(repoLog) >= 2
    /\ repoLog[Len(repoLog) - 1].op = "list"
    /\ repoLog[Len(repoLog) - 1].f = StatusFilter
    /\ repoLog[Len(repoLog) - 1].ctx = FullContext
    /\ Len(heap[repoLog[Len(repoLog) - 1].ret.a].l) = 2
    /\ Len(TypeEntries(store, Task)) = 3
    /\ LastCall.op = "apply_filter"
    /\ LastCall.f = StatusFilter
    /\ IsList(ret, heap)
    /\ Len(heap[ret.a].l) = 2

---------------------------------------------------------------------------
(* The event bus and one client that subscribes handlers and emits events,
   each emit awaited before the client's next call *)

SubscribeCalls ==
    {<<W("E1"), h, o>> : h \in Handlers, o \in BOOLEAN}
        \cup {<<W("E2"), "handler", FALSE>>}

EmitCalls == {<<W("E1"), None>>, <<W("E1"), Payload>>, <<W("E2"), None>>}

BusSpecInit ==
    /\ heap = InitHeap
    /\ context = EmptyContext
    /\ store = EmptyStore
    /\ uuids = 0
    /\ data = [x \in {} |-> None]
    /\ clientEffects = <<>>
    /\ effectResults = <<>>
    /\ executed = <<>>
    /\ ret = None
    /\ exc = ""
    /\ repoLog = <<>>
    /\ BusInit
    /\ ExtInit

\* no emit is in progress
Quiescent == \A t \in 1..Len(emits) : emits[t].pc = "done"

SetBus(B) ==
    /\ subscriptions' = B.subscriptions
    /\ busLists' = B.busLists
    /\ emits' = B.emits
    /\ invocations' = B.invocations

BusSubscribe ==
    /\ Quiescent
    /\ Len(subscribed) < MaxSubs
    /\ \E c \in SubscribeCalls :
        /\ SetBus(subscribe(Bus, c[1], c[2], c[3], Len(subscribed) + 1))
        /\ subscribed' = Append(subscribed, [event |-> c[1], handler |-> c[2], once |-> c[3]])
    /\ UNCHANGED coreVars

\* await bus.emit(event, payload), up to its first suspension
BusEmit ==
    /\ Quiescent
    /\ Len(emits) < MaxEmits
    /\ \E c \in EmitCalls : SetBus(emit(Bus, c[1], c[2], Len(subscribed), heap))
    /\ UNCHANGED <<coreVars, subscribed>>

\* the coroutine handler an emit awaits finishes
BusResume ==
    /\ \E t \in 1..Len(emits) :
        /\ emits[t].pc = "await"
        /\ SetBus(resume(Bus, t, heap))
    /\ UNCHANGED <<coreVars, subscribed>>

BusNext ==
    \/ BusSubscribe
    \/ BusEmit
    \/ BusResume

BusSpec == BusSpecInit /\ [][BusNext]_vars

---------------------------------------------------------------------------
(* Properties of the event bus *)

\* the handler calls emit t has made, in order
CallsOf(t) ==
    LET Test(x) == x.emit = t /\ x.ph = "call" IN SelectSeq(invocations, Test)

Toks(seq) == [i \in 1..Len(seq) |-> seq[i].tok]

\* how many times emit t has called the handler of subscription tok
TimesCalled(t, tok) ==
    Cardinality({k \in 1..Len(invocations) :
                    /\ invocations[k].emit = t
                    /\ invocations[k].ph = "call"
                    /\ invocations[k].tok = tok})

\* the handler of subscription tok was called before emit t started
CalledBefore(t, tok) == \E u \in 1..(t - 1) : TimesCalled(u, tok) > 0

\* the map a handler is to receive from emit t
ExpectedPayload(t) == IF emits[t].payload = None THEN Fresh ELSE emits[t].payload

\* the subscriptions emit t found are subscriptions to its event, in the
\* order of their subscribe calls, and every subscription to the event made
\* before the emit is among them, unless it is a once subscription that was
\* invoked by an earlier emit
C18_SubscribersFound(t) ==
    LET ini == emits[t].initial IN
    /\ \A i \in 1..Len(ini) :
          /\ ini[i].tok \in 1..emits[t].since
          /\ subscribed[ini[i].tok].event = emits[t].event
          /\ ini[i].handler = subscribed[ini[i].tok].handler
          /\ \A j \in 1..(i - 1) : ini[j].tok < ini[i].tok
    /\ \A k \in 1..emits[t].since :
          (/\ subscribed[k].event = emits[t].event
           /\ (~subscribed[k].once \/ ~CalledBefore(t, k)))
          => \E i \in 1..Len(ini) : ini[i].tok = k

\* emit t calls the handlers it found, in order, each with the payload
C18_CalledInOrder(t) ==
    LET calls == CallsOf(t) IN
    /\ Len(calls) <= Len(emits[t].initial)
    /\ Toks(calls) = Toks(SubSeq(emits[t].initial, 1, Len(calls)))
    /\ emits[t].pc = "done" => Len(calls) = Len(emits[t].initial)
    /\ \A i \in 1..Len(calls) : calls[i].payload = ExpectedPayload(t)

\* a handler that was called has returned or raised before the next call is
\* made; the last call may be that of the coroutine being awaited
C18_OneAtATime ==
    \A k \in 1..Len(invocations) :
        invocations[k].ph = "call" =>
            IF k < Len(invocations)
            THEN /\ invocations[k + 1].ph \in {"return", "raise"}
                 /\ invocations[k + 1].emit = invocations[k].emit
                 /\ invocations[k + 1].tok = invocations[k].tok
            ELSE emits[invocations[k].emit].pc = "await"

\* C18: emit(e, payload) invokes the handlers subscribed to e one at a time in
\* subscription order, each (also an awaited coroutine) finishing before the
\* next starts, each receiving the payload or an empty map when none was
\* given; handlers of other events are not invoked, and an emit on an event
\* without subscribers invokes nothing
C18_EmitInSubscriptionOrder ==
    /\ C18_OneAtATime
    /\ \A t \in 1..Len(emits) : C18_SubscribersFound(t) /\ C18_CalledInOrder(t)

\* an emit has called a coroutine handler and then a function, in the order
\* they were subscribed
C18_Witness ==
    \E t \in 1..Len(emits) :
        /\ emits[t].pc = "done"
        /\ Len(emits[t].initial) = 2
        /\ emits[t].initial[1].handler = "async_handler"
        /\ emits[t].initial[2].handler = "handler"
        /\ Len(CallsOf(t)) = 2
        /\ CallsOf(t)[1].payload = Fresh

\* some handler raised during emit t
C19_HandlerRaised(t) ==
    \E k \in 1..Len(invocations) : invocations[k].emit = t /\ invocations[k].ph = "raise"

\* C19: when a handler raises during emit, emit does not raise and every
\* other handler subscribed to the event is still invoked exactly once with
\* the payload, wherever the failing handler stands in subscription order
C19_RaisingHandlerIsolated ==
    \A t \in 1..Len(emits) :
        (emits[t].pc = "done" /\ C19_HandlerRaised(t)) =>
            /\ emits[t].exc = ""
            /\ \A i \in 1..Len(emits[t].initial) :
                  /\ TimesCalled(t, emits[t].initial[i].tok) = 1
                  /\ \A k \in 1..Len(invocations) :
                        (invocations[k].emit = t /\ invocations[k].tok = emits[t].initial[i].tok)
                        => invocations[k].payload = ExpectedPayload(t)

\* the first of two handlers raised and the emit still called the second
C19_Witness ==
    \E t \in 1..Len(emits) :
        /\ emits[t].pc = "done"
        /\ Len(emits[t].initial) = 2
        /\ emits[t].initial[1].handler = "bad_handler"
        /\ emits[t].initial[2].handler # "bad_handler"
        /\ C19_HandlerRaised(t)
        /\ TimesCalled(t, emits[t].initial[2].tok) = 1

\* subscription tok is in the list of its event
C20_StillSubscribed(tok) ==
    /\ subscribed[tok].event \in DOMAIN subscriptions
    /\ \E i \in 1..Len(busLists[subscriptions[subscribed[tok].event]]) :
          busLists[subscriptions[subscribed[tok].event]][i].tok = tok

\* C20: a subscription made with once=true is removed when the emit that
\* invoked its handler completes, so over any sequence of emits of its event
\* the handler is invoked exactly once, whether it returns or raises
C20_OnceFiresOnce ==
    \A tok \in 1..Len(subscribed) :
        subscribed[tok].once =>
            \A t \in 1..Len(emits) :
                (emits[t].pc = "done" /\ TimesCalled(t, tok) > 0) =>
                    /\ ~C20_StillSubscribed(tok)
                    /\ \A u \in 1..Len(emits) : u # t => TimesCalled(u, tok) = 0

---------------------------------------------------------------------------
(* The event bus and one client that also calls the unsubscribe tokens and
   clear between its emits *)

\* the arguments of clear: none (None), a subscribed event, the empty string
ClearCalls == {None, W("E1"), W("E2"), Str(<<>>)}

\* the subscription object the subscribe call numbered tok made
Made(tok) ==
    Sub(subscribed[tok].event, subscribed[tok].handler, subscribed[tok].once, tok)

\* the token of subscribe call tok is called
BusUnsubscribe ==
    /\ Quiescent
    /\ Len(busLog) < MaxBusCalls
    /\ \E tok \in 1..Len(subscribed) :
        /\ SetBus(unsubscribe(Bus, Made(tok)))
        /\ busLog' = Append(busLog, [op |-> "unsubscribe", tok |-> tok, event |-> None])
    /\ UNCHANGED <<heap, context, store, uuids, data, clientEffects, effectResults,
                   executed, ret, exc, repoLog, resolveLog, registryVars, subscribed>>

\* bus.clear(event), bus.clear()
BusClear ==
    /\ Quiescent
    /\ Len(busLog) < MaxBusCalls
    /\ \E e \in ClearCalls :
        /\ SetBus(clear(Bus, e, heap))
        /\ busLog' = Append(busLog, [op |-> "clear", tok |-> 0, event |-> e])
    /\ UNCHANGED <<heap, context, store, uuids, data, clientEffects, effectResults,
                   executed, ret, exc, repoLog, resolveLog, registryVars, subscribed>>

TokenNext ==
    \/ BusSubscribe
    \/ BusEmit
    \/ BusResume
    \/ BusUnsubscribe
    \/ BusClear

TokenSpec == BusSpecInit /\ [][TokenNext]_vars

---------------------------------------------------------------------------
(* Properties of unsubscribe and clear *)

\* the subscriptions of event e, in order, as the numbers of the subscribe
\* calls that made them
SubsOf(subs, lists, e) ==
    IF e \in DOMAIN subs THEN Toks(lists[subs[e]]) ELSE <<>>

Events == {subscribed[k].event : k \in 1..Len(subscribed)}

\* the token of subscribe call tok has been called
Unsubscribed(tok) ==
    \E i \in 1..Len(busLog) : busLog[i].op = "unsubscribe" /\ busLog[i].tok = tok

\* seq without the elements equal to x
Without(seq, x) == LET Keep(y) == y # x IN SelectSeq(seq, Keep)

\* C21: calling the unsubscribe token of a subscribe call removes exactly the
\* subscription that call created: every other subscription, also one of the
\* same handler to the same event with the same once flag, stays in place in
\* its order, a second call of the token changes nothing, and no later emit
\* invokes the handler through the removed subscription
C21_Step ==
    /\ (Len(busLog') > Len(busLog) /\ busLog'[Len(busLog')].op = "unsubscribe") =>
          \A e \in Events :
              SubsOf(subscriptions', busLists', e) =
                  Without(SubsOf(subscriptions, busLists, e), busLog'[Len(busLog')].tok)
    /\ \A k \in (Len(invocations) + 1)..Len(invocations') :
          ~Unsubscribed(invocations'[k].tok)

C21_UnsubscribeExactlyOne == [][C21_Step]_vars

\* C22: clear(e) removes every subscription to e and leaves the
\* subscriptions of every other event as they are, for every event name e,
\* the empty string included; clear() removes all subscriptions
C22_Step ==
    (Len(busLog') > Len(busLog) /\ busLog'[Len(busLog')].op = "clear") =>
        LET e == busLog'[Len(busLog')].event IN
        IF e = None
        THEN \A x \in Events : SubsOf(subscriptions', busLists', x) = <<>>
        ELSE /\ SubsOf(subscriptions', busLists', e) = <<>>
             /\ \A x \in Events \ {e} :
                   SubsOf(subscriptions', busLists', x) = SubsOf(subscriptions, busLists, x)

C22_ClearOneEvent == [][C22_Step]_vars

---------------------------------------------------------------------------
(* The binding resolver called directly on one context *)

\* the caller's objects: those of InitHeap, then a user dict that holds the
\* payload dict under "profile" and None under "gone"
ResolveHeap == InitHeap \o <<
    DictObj((<<"profile">> :> Payload) @@ (<<"gone">> :> None))
>>

User == Ref(13)

UserContext == (<<"user">> :> User) @@ FullContext

ResolveContexts == {EmptyContext, ScalarContext, UserContext}

\* values that are not bindings: non-strings, and strings without a
\* leading "@"
PlainValues == {
    None, Bool(TRUE), Payload, StatusFilter,
    Str(<<>>), W("status"), Str(<<"payload", ".", "name">>),
    Str(<<"a", "@", "payload">>)
}

BindingValues == {
    Binding(<<"payload">>),
    Binding(<<"payload", ".", "name">>),
    Binding(<<"payload", ".", "missing">>),
    Binding(<<"payload", ".", "missing", ".", "deep">>),
    Binding(<<"payload", ".", "name", ".", "x">>),
    Binding(<<"payload", ".">>),
    Binding(<<"entity", ".", "status">>),
    Binding(<<"entityId">>),
    Binding(<<"model", ".", "mode">>),
    Binding(<<"model", ".", "nope">>),
    Binding(<<"user", ".", "profile", ".", "name">>),
    Binding(<<"user", ".", "gone">>),
    Binding(<<"user", ".", "gone", ".", "x">>),
    Binding(<<"nope">>),
    Binding(<<"nope", ".", "x">>),
    Binding(<<>>),
    Binding(<<".", "payload">>)
}

ResolveInit ==
    /\ heap = ResolveHeap
    /\ context \in ResolveContexts
    /\ store = EmptyStore
    /\ uuids = 0
    /\ data = [x \in {} |-> None]
    /\ clientEffects = <<>>
    /\ effectResults = <<>>
    /\ executed = <<>>
    /\ ret = None
    /\ exc = ""
    /\ repoLog = <<>>
    /\ BusInit
    /\ ExtInit

\* one call resolve_binding(v, context)
Resolve(v) ==
    /\ Len(resolveLog) < MaxResolves
    /\ ret' = resolve_binding(v, context, heap)
    /\ exc' = ""
    /\ resolveLog' = Append(resolveLog, [value |-> v, ret |-> resolve_binding(v, context, heap)])
    /\ UNCHANGED <<heap, context, store, uuids, data, clientEffects, effectResults,
                   executed, repoLog, busVars, busLog, registryVars>>

ResolvePlain == \E v \in PlainValues : Resolve(v)

ResolveBinding == \E v \in BindingValues : Resolve(v)

ResolveNext ==
    \/ ResolvePlain
    \/ ResolveBinding

ResolveSpec == ResolveInit /\ [][ResolveNext]_vars

---------------------------------------------------------------------------
(* Properties of the binding resolver *)

\* v is a binding: a string that starts with "@"
IsBindingValue(v) == IsStr(v) /\ v.s # <<>> /\ v.s[1] = "@"

\* what a lookup that finds nothing stands for in the statements below
Missing == [k |-> "missing", s |-> <<>>, a |-> 0]

\* member p of value v, or Missing: the key p of a dict, the attribute p of
\* an object; null and scalars have no members
Member(v, p, h) ==
    IF IsDict(v, h) \/ IsObj(v, h)
    THEN (IF p \in DOMAIN h[v.a].d THEN h[v.a].d[p] ELSE Missing)
    ELSE Missing

\* the value reached from the root through the first n segments of path ps,
\* or Missing when the root or one of those segments is missing
RECURSIVE Reached(_, _, _, _)
Reached(ps, n, ctx, h) ==
    IF n = 0 THEN (IF ps[1] \in DOMAIN ctx THEN ctx[ps[1]] ELSE Missing)
    ELSE LET parent == Reached(ps, n - 1, ctx, h) IN
         IF parent = Missing THEN Missing ELSE Member(parent, ps[n + 1], h)

C29_Resolved(v, r, ctx, h) ==
    IF ~IsBindingValue(v) THEN r = v
    ELSE LET ps == Split(Tail(v.s))
             n  == Len(ps) - 1
         IN  /\ Reached(ps, n, ctx, h) = Missing => r = None
             /\ Reached(ps, n, ctx, h) # Missing => r = Reached(ps, n, ctx, h)
             /\ (\E k \in 0..(n - 1) : Reached(ps, k, ctx, h) = None) => r = None

\* C29: resolve(v, ctx) returns v unchanged when v is not a string or does
\* not start with @; for a binding @r.p1...pn it returns the value reached by
\* looking up r in ctx and then each segment in turn, and null, without
\* raising, as soon as the root or a segment is missing or an intermediate
\* value is null
C29_ResolveBinding ==
    /\ exc = ""
    /\ \A i \in 1..Len(resolveLog) :
          C29_Resolved(resolveLog[i].value, resolveLog[i].ret, context, heap)

\* a three-segment binding was resolved through two dicts, and a binding
\* through a null intermediate value gave null
C29_Witness ==
    /\ Len(resolveLog) >= 2
    /\ \E i \in 1..Len(resolveLog) :
          /\ resolveLog[i].value = Binding(<<"user", ".", "profile", ".", "name">>)
          /\ resolveLog[i].ret = W("n1")
    /\ \E i \in 1..Len(resolveLog) :
          /\ resolveLog[i].value = Binding(<<"user", ".", "gone", ".", "x">>)
          /\ resolveLog[i].ret = None

---------------------------------------------------------------------------
(* The connection manager and concurrent callers: connects, disconnects and
   broadcasts run as tasks that interleave at their suspension points *)

T == W("T")

\* c1 is registered scoped to (T, 1), c2 scoped to (T, 2), c3 globally
PopulatedRegistry ==
    [active |-> (T :> ((W("1") :> <<"c1">>) @@ (W("2") :> <<"c2">>))),
     global |-> <<"c3">>]

\* connect(websocket, entity_type, entity_id): each websocket with its scope
ConnectCalls == {<<"c1", T, W("1")>>, <<"c2", T, W("2")>>, <<"c3", None, None>>}

\* disconnect as the endpoints call it, and once with another scope
DisconnectCalls == ConnectCalls \cup {<<"c1", T, W("2")>>}

BroadcastCalls == {<<T, W("1")>>, <<T, W("2")>>}

\* json_message of a broadcast to an entity and of a global broadcast
EntityMessage == W("m")

GlobalMessage == W("g")

\* the manager is new, or three endpoints have connected
ManagerSpecInit ==
    /\ heap = InitHeap
    /\ context = EmptyContext
    /\ store = EmptyStore
    /\ uuids = 0
    /\ data = [x \in {} |-> None]
    /\ clientEffects = <<>>
    /\ effectResults = <<>>
    /\ executed = <<>>
    /\ ret = None
    /\ exc = ""
    /\ repoLog = <<>>
    /\ BusInit
    /\ resolveLog = <<>>
    /\ busLog = <<>>
    /\ \/ ManagerInit
       \/ /\ active_connections = PopulatedRegistry.active
          /\ global_connections = PopulatedRegistry.global
          /\ lock = 0
          /\ wsState = [c \in Conns |-> "connected"]
          /\ tasks = <<>>
          /\ wire = [c \in Conns |-> <<>>]

Finished == {u \in 1..Len(tasks) : tasks[u].pc = "done"}

\* connect up to the lock: await websocket.accept(), which raises on a
\* websocket that was accepted before
ManagerConnect ==
    /\ Len(tasks) < MaxTasks
    /\ \E c \in ConnectCalls :
        IF wsState[c[1]] = "connecting"
        THEN /\ wsState' = [wsState EXCEPT ![c[1]] = "connected"]
             /\ tasks' = Append(tasks, ManagerTask("connect", c[1], c[2], c[3], None,
                                                   "connect", "acquire", "", Finished))
        ELSE /\ tasks' = Append(tasks, ManagerTask("connect", c[1], c[2], c[3], None,
                                                   "connect", "done", "RuntimeError", Finished))
             /\ UNCHANGED wsState
    /\ UNCHANGED <<hostVars, active_connections, global_connections, lock, wire>>

ManagerDisconnect ==
    /\ Len(tasks) < MaxTasks
    /\ \E c \in DisconnectCalls :
        tasks' = Append(tasks, ManagerTask("disconnect", c[1], c[2], c[3], None,
                                           "disconnect", "acquire", "", Finished))
    /\ UNCHANGED <<hostVars, active_connections, global_connections, lock, wsState, wire>>

ManagerBroadcastToEntity ==
    /\ Len(tasks) < MaxTasks
    /\ \E c \in BroadcastCalls :
        tasks' = Append(tasks, ManagerTask("broadcast_to_entity", "", c[1], c[2], EntityMessage,
                                           "snapshot", "acquire", "", Finished))
    /\ UNCHANGED <<hostVars, active_connections, global_connections, lock, wsState, wire>>

ManagerBroadcastGlobal ==
    /\ Len(tasks) < MaxTasks
    /\ tasks' = Append(tasks, ManagerTask("broadcast_global", "", None, None, GlobalMessage,
                                          "snapshot", "acquire", "", Finished))
    /\ UNCHANGED <<hostVars, active_connections, global_connections, lock, wsState, wire>>

\* async with self._lock: a task enters when the lock is free
ManagerAcquire ==
    /\ \E t \in 1..Len(tasks) :
        /\ tasks[t].pc = "acquire"
        /\ LockFree(lock)
        /\ lock' = t
        /\ tasks' = [tasks EXCEPT ![t].pc = "locked"]
    /\ UNCHANGED <<hostVars, active_connections, global_connections, wsState, wire>>

\* the body of the critical section, and the release of the lock
ManagerCritical ==
    /\ \E t \in 1..Len(tasks) :
        /\ tasks[t].pc = "locked"
        /\ active_connections' = CriticalEffect(tasks[t], Registry, heap).active
        /\ global_connections' = CriticalEffect(tasks[t], Registry, heap).global
        /\ lock' = 0
        /\ tasks' = [tasks EXCEPT
                        ![t].snap = CriticalSnapshot(tasks[t], Registry),
                        ![t].regAt = IF tasks[t].phase = "snapshot" THEN Registry ELSE @,
                        ![t].pc = AfterCritical(tasks[t], CriticalSnapshot(tasks[t], Registry))]
    /\ UNCHANGED <<hostVars, wsState, wire>>

\* one turn of the loop of _send_to_connections: send_text returns or raises;
\* after the last one the task is done, or goes for the lock again when some
\* send failed
ManagerSend ==
    /\ \E t \in 1..Len(tasks), ok \in BOOLEAN :
        /\ tasks[t].pc = "send"
        /\ LET ws     == tasks[t].snap[tasks[t].i + 1]
               failed == IF ok THEN tasks[t].failed ELSE Append(tasks[t].failed, ws)
               last   == tasks[t].i + 1 = Len(tasks[t].snap)
           IN  tasks' = [tasks EXCEPT
                   ![t].i = @ + 1,
                   ![t].sent = Append(@, [conn |-> ws, msg |-> tasks[t].msg, ok |-> ok,
                                          locked |-> lock = t]),
                   ![t].failed = failed,
                   ![t].phase = IF AfterSend(ok, last, failed) = "acquire" THEN "evict" ELSE @,
                   ![t].pc = AfterSend(ok, last, failed)]
    /\ UNCHANGED <<hostVars, active_connections, global_connections, lock, wsState, wire>>

ManagerNext ==
    \/ ManagerConnect
    \/ ManagerDisconnect
    \/ ManagerBroadcastToEntity
    \/ ManagerBroadcastGlobal
    \/ ManagerAcquire
    \/ ManagerCritical
    \/ ManagerSend

ManagerSpec == ManagerSpecInit /\ [][ManagerNext]_vars

---------------------------------------------------------------------------
(* Properties of the connection manager *)

\* the connections registered scoped to (type, id) in registry reg
ScopedTo(reg, type, id) ==
    {c \in Conns : HasList(reg, type, id) /\ InList(reg.active[type][id], c)}

GloballyIn(reg) == {c \in Conns : InList(reg.global, c)}

\* the connections in some list of reg
RegisteredIn(reg) ==
    GloballyIn(reg) \cup
    {c \in Conns : \E t \in DOMAIN reg.active : \E i \in DOMAIN reg.active[t] :
                      InList(reg.active[t][i], c)}

\* the connections task t has made a send attempt to
Attempted(t) == {tasks[t].sent[k].conn : k \in 1..Len(tasks[t].sent)}

\* the connections a send of task t to has failed
FailedIn(t) ==
    {tasks[t].sent[k].conn : k \in {j \in 1..Len(tasks[t].sent) : ~tasks[t].sent[j].ok}}

\* task t has taken its snapshot
Snapshotted(t) == IsBroadcast(tasks[t].op) /\ (tasks[t].phase = "evict" \/ tasks[t].pc \in {"send", "done"})

\* task t has left its send loop
SendsOver(t) == IsBroadcast(tasks[t].op) /\ (tasks[t].phase = "evict" \/ tasks[t].pc = "done")

\* C23: broadcast_to_entity(T, i, m) attempts to send m to every connection
\* registered scoped to (T, i) when the snapshot is taken and to every
\* globally registered connection, and to no connection registered only
\* under another (type, id) pair
C23_BroadcastScope ==
    \A t \in 1..Len(tasks) :
        (tasks[t].op = "broadcast_to_entity" /\ Snapshotted(t)) =>
            LET targets == ScopedTo(tasks[t].regAt, tasks[t].type, tasks[t].id)
                               \cup GloballyIn(tasks[t].regAt)
            IN  /\ Attempted(t) \subseteq targets
                /\ SendsOver(t) => Attempted(t) = targets
                /\ \A k \in 1..Len(tasks[t].sent) : tasks[t].sent[k].msg = tasks[t].msg

\* a broadcast to (T, 1) has sent to the connection scoped to (T, 1) and to
\* the global one while another connection was scoped to (T, 2)
C23_Witness ==
    \E t \in 1..Len(tasks) :
        /\ tasks[t].op = "broadcast_to_entity"
        /\ tasks[t].id = W("1")
        /\ tasks[t].pc = "done"
        /\ Attempted(t) = {"c1", "c3"}
        /\ "c2" \in ScopedTo(tasks[t].regAt, T, W("2"))

\* C24: a connection registered scoped to (T, i) gets every message
\* broadcast to (T, i) and every message sent with broadcast_global; a
\* globally registered connection gets every broadcast of either kind
C24_ScopedGetsGlobal ==
    \A t \in 1..Len(tasks) :
        SendsOver(t) =>
            /\ GloballyIn(tasks[t].regAt) \subseteq Attempted(t)
            /\ tasks[t].op = "broadcast_to_entity" =>
                  ScopedTo(tasks[t].regAt, tasks[t].type, tasks[t].id) \subseteq Attempted(t)
            /\ tasks[t].op = "broadcast_global" =>
                  RegisteredIn(tasks[t].regAt) \subseteq Attempted(t)

\* C25: once a broadcast in which the send to a connection failed has
\* completed, the connection is in neither the global list nor any scoped
\* list, whatever ran concurrently, and the broadcasts that start afterwards
\* make no send attempt to it
C25_FailedEvicted ==
    \A t \in 1..Len(tasks) :
        (IsBroadcast(tasks[t].op) /\ tasks[t].pc = "done") =>
            \A c \in FailedIn(t) :
                /\ c \notin RegisteredIn(Registry)
                /\ \A u \in 1..Len(tasks) :
                      (IsBroadcast(tasks[u].op) /\ t \in tasks[u].after) => c \notin Attempted(u)

\* a broadcast lost its send to the scoped connection c1, and a later
\* broadcast to the same entity has completed
C25_Witness ==
    \E t, u \in 1..Len(tasks) :
        /\ tasks[t].op = "broadcast_to_entity"
        /\ tasks[t].pc = "done"
        /\ "c1" \in FailedIn(t)
        /\ tasks[u].op = "broadcast_to_entity"
        /\ tasks[u].type = tasks[t].type /\ tasks[u].id = tasks[t].id
        /\ t \in tasks[u].after
        /\ tasks[u].pc = "done"

\* how many send attempts task t has made to connection c
AttemptsTo(t, c) == Cardinality({k \in 1..Len(tasks[t].sent) : tasks[t].sent[k].conn = c})

\* C26: a failed send neither makes the broadcast raise nor keeps any other
\* connection of the snapshot from its send attempt: every connection of the
\* snapshot gets exactly one attempt per broadcast, whichever sends fail
C26_FailedSendIsolated ==
    \A t \in 1..Len(tasks) :
        IsBroadcast(tasks[t].op) =>
            /\ tasks[t].exc = ""
            /\ \A c \in Conns : AttemptsTo(t, c) <= 1
            /\ SendsOver(t) =>
                  \A k \in 1..Len(tasks[t].snap) : AttemptsTo(t, tasks[t].snap[k]) = 1

\* the first send of a broadcast failed and the second was still made
C26_Witness ==
    \E t \in 1..Len(tasks) :
        /\ tasks[t].pc = "done"
        /\ Len(tasks[t].sent) = 2
        /\ ~tasks[t].sent[1].ok
        /\ tasks[t].sent[2].ok

\* the tasks inside a critical section
Holders == {t \in 1..Len(tasks) : tasks[t].pc = "locked"}

\* C27: every read or write of the scoped map and of the global list, by
\* connect, disconnect, the two broadcasts and the removal of failed
\* connections, is made by the task that holds the lock; at most one task
\* holds the lock; and a task performs no send and no handshake while it
\* holds the lock
C27_Step ==
    /\ Registry' # Registry => (lock \in Holders /\ lock \notin Holders')
    /\ \A t \in 1..Len(tasks) :
          (tasks'[t].snap # tasks[t].snap \/ tasks'[t].regAt # tasks[t].regAt) => lock = t
    /\ Cardinality(Holders') <= 1
    /\ \A t \in Holders' : lock' = t
    /\ \A t \in 1..Len(tasks) :
          Len(tasks'[t].sent) > Len(tasks[t].sent) => (lock # t /\ t \notin Holders)
    /\ wsState' # wsState => (Len(tasks') > Len(tasks) /\ lock' # Len(tasks'))

C27_LockDiscipline == [][C27_Step]_vars

\* one task is inside a critical section while a broadcast that has made
\* its sends waits for the lock to remove the failed connections
C27_Witness ==
    \E t, u \in 1..Len(tasks) :
        /\ tasks[t].pc = "locked"
        /\ lock = t
        /\ tasks[u].pc = "acquire"
        /\ tasks[u].phase = "evict"

---------------------------------------------------------------------------
(* The realtime endpoints of main.py: each client connection is served by
   one task that connects, answers texts and disconnects *)

\* the endpoint, its websocket and its path parameters
EndpointCalls == {
    <<"websocket_global", "c3", None, None>>,
    <<"websocket_entity", "c1", T, W("1")>>,
    <<"websocket_entity", "c2", T, W("2")>>
}

Texts == {W("ping"), W("hello")}

\* the texts received on the connection of task t so far
ReceivedOn(t) ==
    LET In(x) == x.dir = "in" IN SelectSeq(wire[tasks[t].conn], In)

\* a client connects: the framework calls the endpoint with a new websocket,
\* and the endpoint runs connect up to the lock
ChannelOpen ==
    /\ Len(tasks) < MaxTasks
    /\ \E e \in EndpointCalls :
        /\ wsState[e[2]] = "connecting"
        /\ \A t \in 1..Len(tasks) : tasks[t].conn # e[2]
        /\ wsState' = [wsState EXCEPT ![e[2]] = "connected"]
        /\ tasks' = Append(tasks, ManagerTask(e[1], e[2], e[3], e[4], None,
                                              "connect", "acquire", "", Finished))
    /\ UNCHANGED <<hostVars, active_connections, global_connections, lock, wire>>

\* data = await websocket.receive_text() returns a text
ChannelReceive ==
    /\ \E t \in 1..Len(tasks), text \in Texts :
        /\ tasks[t].pc = "receive"
        /\ Len(ReceivedOn(t)) < MaxTexts
        /\ wire' = [wire EXCEPT ![tasks[t].conn] = Append(@, [dir |-> "in", text |-> text, ok |-> TRUE])]
        /\ tasks' = [tasks EXCEPT ![t].pc = IF IsPing(text) THEN "reply" ELSE "receive"]
    /\ UNCHANGED <<hostVars, active_connections, global_connections, lock, wsState>>

\* await websocket.send_text("pong"): it returns, or the client has gone and
\* it raises WebSocketDisconnect, which takes the endpoint to disconnect
ChannelReply ==
    /\ \E t \in 1..Len(tasks), ok \in BOOLEAN :
        /\ tasks[t].pc = "reply"
        /\ wire' = [wire EXCEPT ![tasks[t].conn] =
                       Append(@, [dir |-> "out", text |-> W("pong"), ok |-> ok])]
        /\ tasks' = [tasks EXCEPT ![t].pc = IF ok THEN "receive" ELSE "acquire",
                                  ![t].phase = IF ok THEN @ ELSE "disconnect"]
    /\ UNCHANGED <<hostVars, active_connections, global_connections, lock, wsState>>

\* the client disconnects: receive_text raises WebSocketDisconnect and the
\* endpoint calls disconnect with the scope it connected with
ChannelDisconnect ==
    /\ \E t \in 1..Len(tasks) :
        /\ tasks[t].pc = "receive"
        /\ tasks' = [tasks EXCEPT ![t].pc = "acquire", ![t].phase = "disconnect"]
    /\ UNCHANGED <<hostVars, active_connections, global_connections, lock, wsState, wire>>

ChannelNext ==
    \/ ChannelOpen
    \/ ManagerAcquire
    \/ ManagerCritical
    \/ ChannelReceive
    \/ ChannelReply
    \/ ChannelDisconnect

ChannelSpec == BusSpecInit /\ [][ChannelNext]_vars

---------------------------------------------------------------------------
(* Properties of the realtime endpoints *)

\* the list the endpoint task t registers its connection in holds it
InOwnList(t) ==
    IF tasks[t].op = "websocket_entity"
    THEN tasks[t].conn \in ScopedTo(Registry, tasks[t].type, tasks[t].id)
    ELSE tasks[t].conn \in GloballyIn(Registry)

\* on the connection of task t every "ping" received is followed at once by
\* one "pong" (or the endpoint is about to send it), and a "pong" is sent
\* only right after a "ping"
C28_PingPong(t) ==
    LET w == wire[tasks[t].conn] IN
    \A k \in 1..Len(w) :
        /\ (w[k].dir = "in" /\ w[k].text = W("ping")) =>
              IF k < Len(w) THEN w[k + 1].dir = "out" /\ w[k + 1].text = W("pong")
              ELSE tasks[t].pc = "reply"
        /\ w[k].dir = "out" =>
              (w[k].text = W("pong") /\ k > 1 /\ w[k - 1].dir = "in" /\ w[k - 1].text = W("ping"))

---------------------------------------------------------------------------
(* Further properties of the dispatcher *)

\* a persist create or a call_service that has a data argument
C40_DataCase(e) ==
    /\ Len(e) >= 4
    /\ \/ e[1] = W("persist") /\ e[2] = W("create")
       \/ e[1] = W("call_service")

\* a fetch whose options carry a filter and no id
C40_FilterCase(e, h) ==
    /\ Len(e) >= 3
    /\ e[1] = W("fetch")
    /\ IsDict(e[3], h)
    /\ ID \notin DOMAIN h[e[3].a].d
    /\ <<"filter">> \in DOMAIN h[e[3].a].d

\* the entity a create returned has the fields of map d as d holds them
C40_StoredAsWritten(d) ==
    /\ exc' = ""
    /\ IsDict(ret', heap')
    /\ \A f \in DOMAIN d \ {ID} : f \in DOMAIN heap'[ret'.a].d /\ heap'[ret'.a].d[f] = d[f]
    /\ (ID \in DOMAIN d /\ Truthy(d[ID], heap)) =>
          /\ heap'[ret'.a].d[ID] = d[ID]
          /\ Lookup(store', LastEffect'[3], d[ID]) = ret'

\* C40: persist and call_service resolve their data argument at the top
\* level only: a data argument that is a binding string is replaced by what
\* it resolves to, a data map is passed on as it is, so that binding strings
\* inside it reach storage as literal strings; and fetch hands its filter
\* expression to storage without resolving the bindings in it
C40_TopLevelResolution ==
    [][Called =>
        LET e == LastEffect' IN
        /\ (C40_DataCase(e) /\ e[1] = W("persist") /\ IsDict(e[4], heap)) =>
              /\ C40_StoredAsWritten(heap[e[4].a].d)
              /\ heap'[e[4].a] = heap[e[4].a]
        /\ \A k \in DOMAIN context :
              (C40_DataCase(e) /\ e[1] = W("persist") /\ e[4] = Binding(k)
                 /\ IsDict(context[k], heap)) =>
              C40_StoredAsWritten(heap[context[k].a].d)
        /\ (C40_DataCase(e) /\ e[1] = W("call_service")) =>
              (exc' = "" /\ HeapKept /\ store' = store)
        /\ (C40_FilterCase(e, heap) /\ DOMAIN context # {}
              /\ WellFormedFilter(heap[e[3].a].d[<<"filter">>], heap)) =>
              LET f == heap[e[3].a].d[<<"filter">>] IN
              /\ ReturnsExactly(Matching(store, e[2], FilterField(f, heap),
                                         FilterValue(f, heap), heap))
              /\ heap'[f.a] = heap[f.a]]_vars

\* a create stored the literal "@entityId" as the id although the context
\* has an entityId
C40_Witness ==
    /\ executed # <<>>
    /\ LastEffect = <<W("persist"), W("create"), Task, IdOption>>
    /\ Truthy(EntityIdOf(context), heap)
    /\ IsDict(ret, heap)
    /\ heap[ret.a].d[ID] = Binding(<<"entityId">>)
    /\ Lookup(store, Task, Binding(<<"entityId">>)) = ret

\* C35: every stored entity's id field equals the key it is stored under
C35_IdEqualsKey ==
    \A type \in DOMAIN store :
        \A i \in 1..Len(store[type]) :
            /\ ID \in DOMAIN heap[store[type][i].a].d
            /\ heap[store[type][i].a].d[ID] = store[type][i].id

---------------------------------------------------------------------------
(* Further properties of the connection manager *)

\* C34: the registry holds no empty scoped connection list and no
\* entityType entry with an empty id map
C34_NoEmptyEntries ==
    \A type \in DOMAIN active_connections :
        /\ DOMAIN active_connections[type] # {}
        /\ \A id \in DOMAIN active_connections[type] :
               active_connections[type][id] # <<>>

\* the connections whose disconnect has completed and that are in no list
\* of the registry
C38_Disconnected ==
    {c \in Conns \ RegisteredIn(Registry) :
        \E d \in 1..Len(tasks) :
            tasks[d].op = "disconnect" /\ tasks[d].conn = c /\ tasks[d].pc = "done"}

\* C38: once disconnect(conn, ...) has completed, no broadcast makes a send
\* attempt to conn, whenever the broadcast took its snapshot.  The first
\* send_text of a pass is called in the step that takes the snapshot; each
\* later one is called in the step in which the one before it returns or
\* raises, and that is the step constrained here
C38_NoSendAfterDisconnect ==
    [][\A t \in 1..Len(tasks) :
          (tasks[t].pc = "send" /\ tasks'[t].pc = "send" /\ tasks'[t].i = tasks[t].i + 1) =>
              tasks[t].snap[tasks'[t].i + 1] \notin C38_Disconnected]_vars

---------------------------------------------------------------------------
(* The connection manager under the scheduling of the event loop.  The     *)
(* event loop runs every task that is ready and a Lock wakes its waiters   *)
(* in turn, so a task that waits for a free lock gets it, a task in its    *)
(* critical section (which has no await) leaves it, and a send_text that   *)
(* is going to return or raise does so.  A send_text may also never        *)
(* return: nothing in the manager bounds it.                               *)

\* await connection.send_text(message) never returns
ManagerHang ==
    /\ \E t \in 1..Len(tasks) :
        /\ tasks[t].pc = "send"
        /\ tasks' = [tasks EXCEPT ![t].pc = "hung"]
    /\ UNCHANGED <<hostVars, active_connections, global_connections, lock, wsState, wire>>

ManagerLiveNext ==
    \/ ManagerNext
    \/ ManagerHang

ManagerFairness ==
    /\ WF_vars(ManagerAcquire)
    /\ WF_vars(ManagerCritical)
    /\ WF_vars(ManagerSend)

ManagerLiveSpec == ManagerSpecInit /\ [][ManagerLiveNext]_vars /\ ManagerFairness

---------------------------------------------------------------------------
(* Properties of the connection manager under that scheduling *)

\* task t exists and waits for the lock or holds it
C33_AtLock(t) == t <= Len(tasks) /\ tasks[t].pc \in {"acquire", "locked"}

\* task t exists and some send of it never returns
C33_Hung(t) == t <= Len(tasks) /\ tasks[t].pc = "hung"

\* task t has terminated, and when it is a broadcast the connections a send
\* of it failed on are in no list of the registry
C33_Terminated(t) ==
    /\ t <= Len(tasks)
    /\ tasks[t].pc = "done"
    /\ IsBroadcast(tasks[t].op) => FailedIn(t) \cap RegisteredIn(Registry) = {}

\* C33: a send that never returns blocks only the broadcast that issued it:
\* every task that waits for the registry lock or holds it gets through its
\* critical section whatever sends are pending, and every task no send of
\* which hangs terminates, a broadcast with the connections its sends failed
\* on removed
C33_HungSendBlocksOnlyItsBroadcast ==
    \A t \in 1..MaxTasks :
        /\ C33_AtLock(t) ~> ~C33_AtLock(t)
        /\ (t <= Len(tasks)) ~> (C33_Hung(t) \/ C33_Terminated(t))

\* one broadcast hangs in a send, and a later broadcast has had a failed
\* send, has taken the lock a second time, evicted and terminated
C33_Witness ==
    \E t, u \in 1..Len(tasks) :
        /\ t < u
        /\ C33_Hung(t)
        /\ IsBroadcast(tasks[u].op)
        /\ tasks[u].phase = "evict"
        /\ FailedIn(u) # {}
        /\ C33_Terminated(u)
        /\ lock = 0

---------------------------------------------------------------------------
(* The event bus and clients that emit while another emit is suspended in
   the await of a coroutine handler *)

\* bus.emit(event, payload) called from another task, up to its first
\* suspension
BusEmitOverlapping ==
    /\ Len(emits) < MaxEmits
    /\ \E c \in EmitCalls : SetBus(emit(Bus, c[1], c[2], Len(subscribed), heap))
    /\ UNCHANGED <<coreVars, subscribed>>

OverlapNext ==
    \/ BusSubscribe
    \/ BusEmitOverlapping
    \/ BusResume

OverlapSpec == BusSpecInit /\ [][OverlapNext]_vars

---------------------------------------------------------------------------
(* Properties of overlapping emits *)

\* the calls of the handler of subscribe call tok
C36_CallsOf(tok) ==
    {k \in 1..Len(invocations) : invocations[k].tok = tok /\ invocations[k].ph = "call"}

\* C36: with emits of one event in progress at the same time, a handler
\* subscribed with once=true (one that does not raise) is invoked at most
\* once in total and no emit raises
C36_OnceUnderOverlap ==
    /\ \A t \in 1..Len(emits) : emits[t].exc = ""
    /\ \A tok \in 1..Len(subscribed) :
           (subscribed[tok].once /\ ~Raises(subscribed[tok].handler)) =>
               Cardinality(C36_CallsOf(tok)) <= 1

---------------------------------------------------------------------------
(* The event bus and one client whose handlers call the bus during their
   invocation, each emit awaited before the client's next call *)

ReentrantCalls ==
    {<<W("E1"), h, o>> : h \in ReentrantHandlers \cup {"handler"}, o \in BOOLEAN}

BusSubscribeReentrant ==
    /\ Quiescent
    /\ Len(subscribed) < MaxSubs
    /\ \E c \in ReentrantCalls :
        /\ SetBus(subscribe(Bus, c[1], c[2], c[3], Len(subscribed) + 1))
        /\ subscribed' = Append(subscribed, [event |-> c[1], handler |-> c[2], once |-> c[3]])
    /\ UNCHANGED coreVars

ReentrantNext ==
    \/ BusSubscribeReentrant
    \/ BusEmit

ReentrantSpec == BusSpecInit /\ [][ReentrantNext]_vars

---------------------------------------------------------------------------
(* Properties of handlers that call the bus *)

\* the calls emit t made of the handler of subscribe call tok
C37_CallsBy(t, tok) ==
    {k \in 1..Len(invocations) :
        invocations[k].emit = t /\ invocations[k].tok = tok /\ invocations[k].ph = "call"}

\* C37: emit completes without raising when a handler calls an unsubscribe
\* token or clear while the emit is running, also when a once handler
\* unsubscribes itself or clears its own event, and the handlers subscribed
\* before the emit started are each invoked at most once by it
C37_ReentrantEmit ==
    \A t \in 1..Len(emits) :
        /\ emits[t].exc = ""
        /\ \A k \in 1..Len(emits[t].initial) :
               Cardinality(C37_CallsBy(t, emits[t].initial[k].tok)) <= 1
====
